---------------------------- MODULE Spec2Model ----------------------------
(***************************************************************************)
(* TokenTrove: the cache builders (src/pkg/cache.go), the chain searches   *)
(* of the report server (src/pkg/web/server.go) and the concurrent         *)
(* pipeline runner RunProcess (src/unnamed/part_002).                      *)
(*                                                                         *)
(* Words are natural numbers whose numeric order is the byte order that    *)
(* sort.Strings uses; a text file is the sequence of its whitespace        *)
(* separated words.  A persisted line is a sequence of tokens: a digit run *)
(* is the number it denotes (>= 0), punctuation is a negative code.        *)
(***************************************************************************)
EXTENDS Integers, Sequences, FiniteSets, TLC

\* ------------------------------------------------------------------ bounds
\* Largest n-gram order a builder or the server is run with (-ngrams).
MaxOrder == 4
\* Largest number of files in the scanned directory.
MaxFiles == 3
\* The pairwise search stops collecting at 500 chains (server.go:675); the
\* model's corpora produce a handful of candidates, so the cap is scaled to
\* a value they exceed.
PairCap == 4
\* Likewise the 300-chain cap of the 3-hop search (server.go:930).
TripleCap == 3
\* The builders scan a file with a bufio.Scanner whose buffer is 1 MiB
\* (cache.go:79): a line must be shorter.  The token normaliser writes a
\* file as one line, so the model scales the buffer to a number of words.
ScanBuffer == 7
\* Largest number of report jobs posted to the server, and the slots of
\* jobQueue: the channel holds 100 jobs (server.go:72); the model scales it
\* so that the jobs posted fill it.
MaxJobs == 3
QueueCap == 2
\* Largest number of files RunProcess finds, and largest -workers value.
MaxRunFiles == 3
MaxWorkers == 2

\* ------------------------------------------------------- program constants
Comma == -1
LBracket == -2
RBracket == -3
Pipe == -4
\* strings.Split(fullText, " ") yields "" for the text after a trailing blank
EmptyPiece == 0
ReportCap == 100
PairLoadLimit == 200
TripleLoadLimit == 300
DefaultTopN == 100
MaxHops == 10
ShownFilesPair == 20
ShownFilesChain == 10
Bar == -5
OverlapWidth == 2
FloorMinFiles == 2
FallbackMinN == 5
QueueMinNChains == 3
InputDir == "token"

\* ------------------------------------------------------------- sequences
Range(s) == {s[i] : i \in DOMAIN s}

Min(a, b) == IF a < b THEN a ELSE b

RECURSIVE SortSet(_)
\* sort.Strings / sort.Ints of the members of a set
SortSet(S) ==
  IF S = {} THEN <<>>
  ELSE LET m == CHOOSE x \in S : \A y \in S : x <= y
       IN <<m>> \o SortSet(S \ {m})

RECURSIVE Flatten(_)
Flatten(ss) == IF ss = <<>> THEN <<>> ELSE Head(ss) \o Flatten(Tail(ss))

RECURSIVE Distinct(_, _)
\* the members of s in first-seen order
Distinct(s, acc) ==
  IF s = <<>> THEN acc
  ELSE Distinct(Tail(s), IF Head(s) \in Range(acc) THEN acc ELSE Append(acc, Head(s)))

\* index (1-based) of x in s; s holds x
IndexOf(s, x) == CHOOSE i \in DOMAIN s : s[i] = x

RECURSIVE SeqLess(_, _)
\* byte order of two strings, as token sequences
SeqLess(a, b) ==
  IF a = <<>> THEN b # <<>>
  ELSE IF b = <<>> THEN FALSE
  ELSE IF Head(a) # Head(b) THEN Head(a) < Head(b)
  ELSE SeqLess(Tail(a), Tail(b))

RECURSIVE SortKeys(_)
SortKeys(S) ==
  IF S = {} THEN <<>>
  ELSE LET m == CHOOSE x \in S : \A y \in S \ {x} : SeqLess(x, y)
       IN <<m>> \o SortKeys(S \ {m})

Reverse(s) == [i \in DOMAIN s |-> s[Len(s) + 1 - i]]

\* Go leaves the order of a range over a map unspecified.  The model draws it
\* from two orders: ascending and descending key order.
MapOrders(keys) == {SortKeys(keys), Reverse(SortKeys(keys))}

RECURSIVE JoinWith(_, _)
\* strings.Join of token sequences with a one-token separator
JoinWith(fields, sep) ==
  IF fields = <<>> THEN <<>>
  ELSE IF Len(fields) = 1 THEN fields[1]
  ELSE fields[1] \o <<sep>> \o JoinWith(Tail(fields), sep)

RECURSIVE SplitOn(_, _)
\* strings.Split: k separators give k+1 fields, the empty string one empty field
SplitOn(line, sep) ==
  IF \A i \in DOMAIN line : line[i] # sep THEN <<line>>
  ELSE LET k == CHOOSE i \in DOMAIN line :
                  line[i] = sep /\ \A j \in 1..(i-1) : line[j] # sep
       IN <<SubSeq(line, 1, k-1)>> \o SplitOn(SubSeq(line, k+1, Len(line)), sep)

\* strconv.Atoi: the number when the field is one digit run, else 0 (with an
\* error the callers drop)
Atoi(field) == IF Len(field) = 1 /\ field[1] >= 0 THEN field[1] ELSE 0

\* fmt.Sscanf(field, "%d", &v) with v zero before: the leading digit run
Sscanf(field) == IF Len(field) >= 1 /\ field[1] >= 0 THEN field[1] ELSE 0

\* ------------------------------------------------------------ the corpus
\* The words of the modelled texts in sort.Strings order: a word is its
\* 1-based position here, so comparing numbers compares the words.
Vocabulary == <<"all", "brown", "day", "dog", "fox", "jumps", "lazy", "over",
                "quick", "sleeps", "the">>
Text(ws) == [i \in DOMAIN ws |-> IndexOf(Vocabulary, ws[i])]

DocA == Text(<<"the", "quick", "brown", "fox", "jumps">>)
DocB == Text(<<"quick", "brown", "fox", "jumps", "over">>)
DocC == Text(<<"lazy", "dog", "sleeps", "all", "day">>)
DocAB == Text(<<"the", "quick", "brown", "fox", "jumps", "over">>)
DocTail == Text(<<"fox", "jumps", "over">>)
Docs == <<DocA, DocB, DocC, DocAB, DocTail>>
\* a file whose line does not fit the scanner's buffer
DocLong == Text(<<"the", "fox", "jumps", "over", "fox", "jumps", "over">>)
FileNames == <<"A", "B", "C", "D", "E">>

Orders == 2..MaxOrder

\* --------------------------------------------------------------- artifacts
NoFile == [exists |-> FALSE, lines |-> <<>>]
File(ls) == [exists |-> TRUE, lines |-> ls]

\* "<id>,[<a>,<b>,...]"
ListLine(id, sorted) ==
  <<id, Comma, LBracket>> \o JoinWith([i \in DOMAIN sorted |-> <<sorted[i]>>], Comma)
     \o <<RBracket>>

\* "<w1>|<w2>|...": strings.Join of the %d-formatted word indices with "|"
NgramKey(ids) == JoinWith([i \in DOMAIN ids |-> <<ids[i]>>], Pipe)

VARIABLES
  corpus,        \* the input directory in walk order: [name, text, readable]
  settings,      \* settings.txt
  uniq,          \* uniq.txt
  filesTxt,      \* files.txt
  fileuniqindex, \* fileuniqindex.txt
  uniqNgram,     \* uniq<n>gram.txt, per order
  gramindex,     \* <n>gramindex.txt, per order
  gramfreq,      \* <n>gramfreq.txt, per order
  gramfiles,     \* <n>gramfiles.txt, per order
  lastRun,       \* the last stage run: what it was and how it ended
  server,        \* the report server: whether it is up, and its CacheConfig.MaxN
  report,        \* the last report written by the report worker
  run            \* the run of RunProcess: its goroutines and channels

cacheVars == <<settings, uniq, filesTxt, fileuniqindex, uniqNgram, gramindex,
               gramfreq, gramfiles>>
pipelineVars == <<corpus, cacheVars, lastRun, server, report>>
vars == <<pipelineVars, run>>

\* an artifact that stores file IDs; table records, beside the file, the
\* lines files.txt had when the artifact was written
IndexFile(ls) == [exists |-> TRUE, lines |-> ls, table |-> filesTxt.lines]

\* ------------------------------------------------------------ tokenizing
\* the words scanner.Scan and strings.Fields yield from a file of one line:
\* none when the line does not fit the buffer (Scan returns false, and the
\* builders do not look at scanner.Err)
ScanWords(text) == IF Len(text) < ScanBuffer THEN text ELSE <<>>

\* os.Open(filepath.Join(tokenInputDir, relPath)) and the scan of its words
OpenText(relPath) ==
  IF \E i \in DOMAIN corpus : corpus[i].name = relPath /\ corpus[i].readable
  THEN [ok |-> TRUE,
        text |-> ScanWords(corpus[CHOOSE i \in DOMAIN corpus : corpus[i].name = relPath].text)]
  ELSE [ok |-> FALSE, text |-> <<>>]

\* wordToIndex: the line number of each word of uniq.txt (a later line wins)
WordToIndex ==
  [w \in Range(uniq.lines) |->
     (CHOOSE i \in DOMAIN uniq.lines :
        uniq.lines[i] = w /\ \A j \in DOMAIN uniq.lines : uniq.lines[j] = w => j <= i) - 1]

RECURSIVE WordIds(_, _)
\* the word indices of a text, words missing from the dictionary dropped
WordIds(text, w2i) ==
  IF text = <<>> THEN <<>>
  ELSE (IF Head(text) \in DOMAIN w2i THEN <<w2i[Head(text)]>> ELSE <<>>)
         \o WordIds(Tail(text), w2i)

\* the keys of the windows of width n, left to right
Windows(ids, n) == [i \in 1..(Len(ids) - n + 1) |-> NgramKey(SubSeq(ids, i, i + n - 1))]

\* per entry of files.txt: the window keys of the file, <<>> when it cannot be opened
FileWindows(n) ==
  [i \in DOMAIN filesTxt.lines |->
     LET f == OpenText(filesTxt.lines[i])
     IN IF f.ok THEN Windows(WordIds(f.text, WordToIndex), n) ELSE <<>>]

\* HasDictionary without the check of files.txt
HasDictionaryNoFileTable ==
  /\ settings.exists /\ settings.lines # <<>>
  /\ uniq.exists

\* settings.txt, uniq.txt and files.txt can be read and name an input directory
HasDictionary ==
  /\ settings.exists /\ settings.lines # <<>>
  /\ uniq.exists /\ filesTxt.exists

\* --------------------------------------------------------------- builders
UniqueWordsFirstFile ==
  IF corpus # <<>> /\ corpus[1].readable THEN Range(ScanWords(corpus[1].text)) ELSE {}

UniqueWords ==
  UNION {Range(ScanWords(corpus[i].text)) : i \in {j \in DOMAIN corpus : corpus[j].readable}}

BuildTokenCache ==
  /\ ~server.up
  /\ settings' = File(<<InputDir>>)
  /\ uniq' = File(SortSet(UniqueWords))
  /\ filesTxt' = File([i \in DOMAIN corpus |-> corpus[i].name])
  /\ lastRun' = [stage |-> "tokens", maxN |-> 0, err |-> FALSE]
  /\ UNCHANGED <<run, corpus, fileuniqindex, uniqNgram, gramindex, gramfreq, gramfiles, server,
                 report>>

\* WordFiles listing every file of files.txt that can be opened
WordFilesOpened(wIdx) ==
  {i - 1 : i \in {j \in DOMAIN filesTxt.lines : OpenText(filesTxt.lines[j]).ok}}

\* the files (0-based position in files.txt) whose text holds the word index
WordFiles(wIdx) ==
  {i - 1 : i \in {j \in DOMAIN filesTxt.lines :
        LET f == OpenText(filesTxt.lines[j])
        IN f.ok /\ wIdx \in Range(WordIds(f.text, WordToIndex))}}

BuildIndexCache ==
  /\ ~server.up
  /\ IF HasDictionary
     THEN /\ fileuniqindex' =
               IndexFile([k \in 1..Cardinality(Range(uniq.lines)) |->
                            ListLine(k - 1, SortSet(WordFiles(k - 1)))])
          /\ lastRun' = [stage |-> "index", maxN |-> 0, err |-> FALSE]
     ELSE /\ lastRun' = [stage |-> "index", maxN |-> 0, err |-> TRUE]
          /\ UNCHANGED fileuniqindex
  /\ UNCHANGED <<run, corpus, settings, uniq, filesTxt, uniqNgram, gramindex, gramfreq,
                 gramfiles, server, report>>

\* ngramToIndex of one order: the keys in first-seen order over files.txt
NgramKeys(n) == Distinct(Flatten(FileWindows(n)), <<>>)

\* NgramFileSet numbering the files from 1
NgramFileSetFromOne(n, key) ==
  {i \in DOMAIN filesTxt.lines : key \in Range(FileWindows(n)[i])}

\* ngramToFiles of a key
NgramFileSet(n, key) ==
  {i - 1 : i \in {j \in DOMAIN filesTxt.lines : key \in Range(FileWindows(n)[j])}}

NgramIndexLines(n) ==
  LET keys == NgramKeys(n)
  IN [g \in DOMAIN keys |-> ListLine(g - 1, SortSet(NgramFileSet(n, keys[g])))]

BuildNgramCache(maxN) ==
  /\ ~server.up
  /\ IF maxN >= 2 /\ HasDictionary
     THEN /\ uniqNgram' = [n \in Orders |->
                 IF n <= maxN THEN File(NgramKeys(n)) ELSE uniqNgram[n]]
          /\ gramindex' = [n \in Orders |->
                 IF n <= maxN THEN IndexFile(NgramIndexLines(n)) ELSE gramindex[n]]
          /\ lastRun' = [stage |-> "ngrams", maxN |-> maxN, err |-> FALSE]
     ELSE /\ lastRun' = [stage |-> "ngrams", maxN |-> maxN, err |-> TRUE]
          /\ UNCHANGED <<uniqNgram, gramindex>>
  /\ UNCHANGED <<run, corpus, settings, uniq, filesTxt, fileuniqindex, gramfreq, gramfiles,
                 server, report>>

\* ngramCount[key]: the occurrences of a key over all files
Occurrences(n, key) ==
  LET ws == Flatten(FileWindows(n))
  IN Cardinality({i \in DOMAIN ws : ws[i] = key})

\* ngramCount of one order: the keys with count >= 2
FrequentKeys(n) == {x \in Range(Flatten(FileWindows(n))) : Occurrences(n, x) >= 2}

RECURSIVE InsertByCount(_, _)
\* insertion of x behind every entry whose count is not smaller
InsertByCount(sorted, x) ==
  IF sorted = <<>> THEN <<x>>
  ELSE IF Head(sorted).count >= x.count THEN <<Head(sorted)>> \o InsertByCount(Tail(sorted), x)
  ELSE <<x>> \o sorted

RECURSIVE SortByCount(_, _)
\* sort.Slice by count descending; on the short slices of the model it is the
\* insertion sort, which keeps entries of equal count in their slice order
SortByCount(entries, acc) ==
  IF entries = <<>> THEN acc
  ELSE SortByCount(Tail(entries), InsertByCount(acc, Head(entries)))

\* <n>gramfreq.txt when the map is ranged over in the given key order
FreqLines(n, keyOrder) ==
  LET filtered == [i \in DOMAIN keyOrder |->
                     [ngram |-> keyOrder[i], count |-> Occurrences(n, keyOrder[i])]]
      sorted == SortByCount(filtered, <<>>)
  IN [i \in DOMAIN sorted |-> sorted[i].ngram \o <<Comma, sorted[i].count>>]

\* the frequency file of order n, the n-grams ranged over in one of the two
\* map iteration orders
FreqFile(n, descending) ==
  LET asc == SortKeys(FrequentKeys(n))
  IN File(FreqLines(n, IF descending THEN Reverse(asc) ELSE asc))

BuildNgramFreqCache(maxN) ==
  /\ ~server.up
  /\ IF maxN >= 2 /\ HasDictionary
     THEN /\ \E descending \in BOOLEAN :
               gramfreq' = [n \in Orders |->
                  IF n <= maxN THEN FreqFile(n, descending) ELSE gramfreq[n]]
          /\ lastRun' = [stage |-> "ngramfreq", maxN |-> maxN, err |-> FALSE]
     ELSE /\ lastRun' = [stage |-> "ngramfreq", maxN |-> maxN, err |-> TRUE]
          /\ UNCHANGED gramfreq
  /\ UNCHANGED <<run, corpus, settings, uniq, filesTxt, fileuniqindex, uniqNgram, gramindex,
                 gramfiles, server, report>>

RECURSIVE SortInts(_)
\* sort.Ints of a list, repeated members kept
SortInts(s) ==
  IF s = <<>> THEN <<>>
  ELSE LET k == CHOOSE i \in DOMAIN s : \A j \in DOMAIN s : s[i] <= s[j]
       IN <<s[k]>> \o SortInts(SubSeq(s, 1, k - 1) \o SubSeq(s, k + 1, Len(s)))

\* strings.Index(line, ",["): the 1-based position, 0 when absent
IndexCommaBracket(line) ==
  IF \E i \in 1..(Len(line) - 1) : line[i] = Comma /\ line[i + 1] = LBracket
  THEN CHOOSE i \in 1..(Len(line) - 1) :
         /\ line[i] = Comma /\ line[i + 1] = LBracket
         /\ \A j \in 1..(i - 1) : ~(line[j] = Comma /\ line[j + 1] = LBracket)
  ELSE 0

TrimPrefix(s, t) == IF s # <<>> /\ Head(s) = t THEN Tail(s) ELSE s
TrimSuffix(s, t) == IF s # <<>> /\ s[Len(s)] = t THEN SubSeq(s, 1, Len(s) - 1) ELSE s

\* one line of <n>gramindex.txt as the (file, n-gram) pairs it appends
ReverseEntries(line) ==
  LET c == IndexCommaBracket(line)
      arrayPart == TrimSuffix(TrimPrefix(SubSeq(line, c + 1, Len(line)), LBracket), RBracket)
      fields == SplitOn(arrayPart, Comma)
  IN IF c = 0 \/ arrayPart = <<>> THEN <<>>
     ELSE [i \in DOMAIN fields |->
             [file |-> Sscanf(fields[i]), ngram |-> Sscanf(SubSeq(line, 1, c - 1))]]

RECURSIVE NgramsOfFile(_, _)
\* fileToNgrams[fileIdx] in append order
NgramsOfFile(entries, fileIdx) ==
  IF entries = <<>> THEN <<>>
  ELSE (IF Head(entries).file = fileIdx THEN <<Head(entries).ngram>> ELSE <<>>)
         \o NgramsOfFile(Tail(entries), fileIdx)

\* ReverseLines reading fileToNgrams one file further
ReverseLinesFromOne(n) ==
  LET entries == Flatten([i \in DOMAIN gramindex[n].lines |->
                            ReverseEntries(gramindex[n].lines[i])])
  IN [f \in 1..Len(filesTxt.lines) |->
        ListLine(f - 1, SortInts(NgramsOfFile(entries, f)))]

\* the lines of <n>gramfiles.txt: one per file ID below fileCount
ReverseLines(n) ==
  LET entries == Flatten([i \in DOMAIN gramindex[n].lines |->
                            ReverseEntries(gramindex[n].lines[i])])
  IN [f \in 1..Len(filesTxt.lines) |->
        ListLine(f - 1, SortInts(NgramsOfFile(entries, f - 1)))]

BuildNgramFilesCache(maxN) ==
  /\ ~server.up
  /\ IF maxN >= 2 /\ filesTxt.exists
     THEN /\ gramfiles' = [n \in Orders |->
                 IF n <= maxN /\ gramindex[n].exists THEN IndexFile(ReverseLines(n))
                 ELSE gramfiles[n]]
          /\ lastRun' = [stage |-> "ngramfiles", maxN |-> maxN, err |-> FALSE]
     ELSE /\ lastRun' = [stage |-> "ngramfiles", maxN |-> maxN, err |-> TRUE]
          /\ UNCHANGED gramfiles
  /\ UNCHANGED <<run, corpus, settings, uniq, filesTxt, fileuniqindex, uniqNgram, gramindex,
                 gramfreq, server, report>>

NoReport == [type |-> "none"]

\* ---------------------------------------------------------------- loading
\* loadWordIndex: wordIndex[idx] is line idx of uniq.txt
HasWord(idx) == uniq.exists /\ idx >= 0 /\ idx < Len(uniq.lines)

RECURSIVE WordsOf(_)
\* the words of the indices the word index holds
WordsOf(indices) ==
  IF indices = <<>> THEN <<>>
  ELSE (IF HasWord(Head(indices)) THEN <<uniq.lines[Head(indices) + 1]>> ELSE <<>>)
         \o WordsOf(Tail(indices))

\* loadFileIndex
LoadFileIndex == IF filesTxt.exists THEN filesTxt.lines ELSE <<>>

\* strings.Split(ngramLine, "|") and strconv.Atoi of every field
ParseIndices(ngramStr) ==
  LET f == SplitOn(ngramStr, Pipe) IN [i \in DOMAIN f |-> Atoi(f[i])]

\* strings.Split(filesLine, ",") and strconv.Atoi of every non-empty field
ParseFiles(filesLine) ==
  {Atoi(f) : f \in {g \in Range(SplitOn(filesLine, Comma)) : g # <<>>}}

\* the number of entries a loader returns from k usable lines
Limited(k, limit) == IF limit <= 0 THEN k ELSE Min(k, limit)

\* strings.LastIndex(line, ","): 1-based, 0 when absent
LastComma(line) ==
  IF \E i \in DOMAIN line : line[i] = Comma
  THEN CHOOSE i \in DOMAIN line : line[i] = Comma /\ \A j \in DOMAIN line : line[j] = Comma => j <= i
  ELSE 0

loadNgramsFreqOnly(n, limit) ==
  LET usable == SelectSeq(gramfreq[n].lines, LAMBDA l : LastComma(l) # 0)
  IN [i \in 1..Limited(Len(usable), limit) |->
        LET line == usable[i]
            c == LastComma(line)
        IN [words |-> WordsOf(ParseIndices(SubSeq(line, 1, c - 1))),
            n |-> n,
            count |-> Atoi(SubSeq(line, c + 1, Len(line))),
            files |-> {},
            hasFiles |-> FALSE]]

loadNgramsWithFiles(n, limit) ==
  IF ~uniqNgram[n].exists \/ ~gramindex[n].exists
  THEN loadNgramsFreqOnly(n, limit)
  ELSE [i \in 1..Limited(Min(Len(uniqNgram[n].lines), Len(gramindex[n].lines)), limit) |->
          LET files == ParseFiles(gramindex[n].lines[i])
          IN [words |-> WordsOf(ParseIndices(uniqNgram[n].lines[i])),
              n |-> n,
              count |-> Cardinality(files),
              files |-> files,
              hasFiles |-> TRUE]]

\* the vocabulary's words that are numbers or start with a digit
NumericWords == {}

isNumericOnly(words) ==
  IF Len(words) = 0 THEN TRUE
  ELSE 10 * Cardinality({i \in DOMAIN words : words[i] \in NumericWords}) > 6 * Len(words)

\* the entries of the orders minN..maxN that enter the boundary maps
LoadedEntries(minN, maxN, limit, skipNumeric) ==
  Flatten([k \in 1..(maxN - minN + 1) |->
     SelectSeq(loadNgramsWithFiles(minN + k - 1, limit),
               LAMBDA ng : Len(ng.words) >= 2 /\ ~(skipNumeric /\ isNumericOnly(ng.words)))])

\* ----------------------------------------------------------------- strings
\* A string is the sequence of its pieces between single blanks; "" is one
\* empty piece.  strings.Join(words, " "):
Phrase(words) == IF words = <<>> THEN <<EmptyPiece>> ELSE words

EndKey(e) == Phrase(SubSeq(e.words, Len(e.words) - OverlapWidth + 1, Len(e.words)))
\* StartKey taken one word late
StartKeyShifted(e) == Phrase(SubSeq(e.words, 2, OverlapWidth + 1))
StartKey(e) == Phrase(SubSeq(e.words, 1, OverlapWidth))
Rest(e) == Phrase(SubSeq(e.words, OverlapWidth + 1, Len(e.words)))

\* endsWith[key] and startsWith[key], in append order
EndList(entries, key) == SelectSeq(entries, LAMBDA e : EndKey(e) = key)
StartList(entries, key) == SelectSeq(entries, LAMBDA e : StartKey(e) = key)
EndKeys(entries) == {EndKey(entries[i]) : i \in DOMAIN entries}

\* fileNames[fIdx] for the first `shown` indices that are in range; the
\* model's file sets stay below `shown` members.  The list is in the
\* iteration order of a map; the model keeps its members
FileList(shared, fileNames, shown) ==
  {fileNames[f + 1] : f \in {g \in shared : g < Len(fileNames)}}

\* the request after queueReport's defaults
Job(type, req) ==
  [Type |-> type,
   MinN |-> IF req.MinN # 0 THEN req.MinN
            ELSE IF type = "best_chains" THEN QueueMinNChains ELSE FallbackMinN,
   MinFiles |-> IF type = "recurring_text" /\ req.MinFiles = 0 THEN FloorMinFiles
                ELSE req.MinFiles,
   SkipNumeric |-> req.SkipNumeric,
   TopN |-> req.TopN]

EffectiveMinFiles(job) == IF job.MinFiles < FloorMinFiles THEN FloorMinFiles ELSE job.MinFiles

Take(s, k) == SubSeq(s, 1, Min(k, Len(s)))

\* Before comparing the scoring key alone
BeforeByScoringKey(type, a, b) ==
  CASE type = "recurring_text" -> a.fileCount > b.fileCount
    [] type = "linked_ngrams" -> a.fileCount > b.fileCount
    [] OTHER -> a.score > b.score

\* the less function each report hands to sort.Slice: a comes before b
Before(type, a, b) ==
  CASE type = "recurring_text" ->
         IF a.fileCount # b.fileCount THEN a.fileCount > b.fileCount
         ELSE a.totalLength > b.totalLength
    [] type = "linked_ngrams" ->
         IF a.fileCount # b.fileCount THEN a.fileCount > b.fileCount
         ELSE a.chainLength > b.chainLength
    [] OTHER -> a.score > b.score

RECURSIVE InsertChain(_, _, _)
InsertChain(type, sorted, c) ==
  IF sorted = <<>> THEN <<c>>
  ELSE IF Before(type, c, Head(sorted)) THEN <<c>> \o sorted
  ELSE <<Head(sorted)>> \o InsertChain(type, Tail(sorted), c)

RECURSIVE SortChains(_, _, _)
\* sort.Slice; on the short slices of the model it is the insertion sort,
\* which keeps chains that compare equal in their slice order
SortChains(type, chains, acc) ==
  IF chains = <<>> THEN acc
  ELSE SortChains(type, Tail(chains), InsertChain(type, acc, Head(chains)))

\* --------------------------------------------------- pairwise (2-hop) search
PairMinN(job) == IF job.MinN < 3 THEN FallbackMinN ELSE job.MinN

\* PairShared collecting the files of either n-gram
PairSharedUnion(from, to) == IF from.hasFiles /\ to.hasFiles THEN from.files \cup to.files ELSE {}
PairShared(from, to) == IF from.hasFiles /\ to.hasFiles THEN from.files \cap to.files ELSE {}

PairFileCount(from, to) ==
  IF ~from.hasFiles THEN Min(from.count, to.count) ELSE Cardinality(PairShared(from, to))

\* the pair passes the same-n-gram, shared-files and minimum-files tests
PairKept(from, to, job) ==
  /\ Phrase(from.words) # Phrase(to.words)
  /\ ~(Cardinality(PairShared(from, to)) = 0 /\ from.hasFiles)
  /\ PairFileCount(from, to) >= EffectiveMinFiles(job)

\* chainKey := fromPhrase + " | " + toPhrase
PairKey(from, to) == Phrase(from.words) \o <<Bar>> \o Phrase(to.words)

PairChain(from, to) ==
  LET fullText == Phrase(from.words) \o Rest(to)
  IN [segments |-> <<[phrase |-> Phrase(from.words), n |-> from.n, count |-> from.count,
                      startIdx |-> 0, endIdx |-> from.n - 1],
                     [phrase |-> Phrase(to.words), n |-> to.n, count |-> to.count,
                      startIdx |-> from.n - OverlapWidth, endIdx |-> Len(fullText) - 1]>>,
      fullText |-> fullText,
      overlap |-> EndKey(from),
      fileCount |-> PairFileCount(from, to),
      files |-> FileList(PairShared(from, to), LoadFileIndex, ShownFilesPair),
      totalLength |-> Len(fullText)]

\* the (from, to) pairs in the order the three loops visit them
PairCandidates(entries, keyOrder) ==
  Flatten([k \in DOMAIN keyOrder |->
    LET endList == EndList(entries, keyOrder[k])
        startList == StartList(entries, keyOrder[k])
    IN Flatten([i \in DOMAIN endList |->
          [j \in DOMAIN startList |-> [from |-> endList[i], to |-> startList[j]]]])])

RECURSIVE CollectPairs(_, _, _, _)
\* the loops over the candidates: chains appended until the cap is reached
CollectPairs(cands, chains, seen, job) ==
  IF cands = <<>> \/ Len(chains) >= PairCap THEN chains
  ELSE LET from == Head(cands).from
           to == Head(cands).to
       IN IF PairKept(from, to, job) /\ PairKey(from, to) \notin seen
          THEN CollectPairs(Tail(cands), Append(chains, PairChain(from, to)),
                            seen \cup {PairKey(from, to)}, job)
          ELSE CollectPairs(Tail(cands), chains, seen, job)

\* the chains of the report when endsWith is ranged over in keyOrder
RecurringChains(job, keyOrder) ==
  LET entries == LoadedEntries(PairMinN(job), server.MaxN, PairLoadLimit, job.SkipNumeric)
  IN Take(SortChains(job.Type, CollectPairs(PairCandidates(entries, keyOrder), <<>>, {}, job), <<>>),
          ReportCap)

PairKeyOrders(job) ==
  MapOrders(EndKeys(LoadedEntries(PairMinN(job), server.MaxN, PairLoadLimit, job.SkipNumeric)))

Requests == [MinN : {0, 3}, MinFiles : {0, MaxFiles + 1}, SkipNumeric : {FALSE}, TopN : {0}]

\* the report worker is idle, or asked for the report it wrote last
MayRun(job) == server.up /\ (report = NoReport \/ (report.type = job.Type /\ report.job = job))

generateRecurringTextReport(req) ==
  LET job == Job("recurring_text", req)
  IN /\ MayRun(job)
     /\ \E keyOrder \in PairKeyOrders(job) :
          report' = [type |-> job.Type, job |-> job, chains |-> RecurringChains(job, keyOrder)]
     /\ UNCHANGED <<run, corpus, cacheVars, lastRun, server>>

\* ------------------------------------------------------------ 3-hop search
LinkedMinN(job) == IF job.MinN < 3 THEN FallbackMinN ELSE job.MinN

SharedAB(from, mid) == IF from.hasFiles /\ mid.hasFiles THEN from.files \cap mid.files ELSE {}

SharedABC(from, mid, to) == IF to.hasFiles THEN SharedAB(from, mid) \cap to.files ELSE {}

LinkedFileCount(from, mid, to) ==
  IF ~to.hasFiles THEN Min(Min(from.count, mid.count), to.count)
  ELSE Cardinality(SharedABC(from, mid, to))

\* the triple passes the tests of the two inner loops
LinkedKept(from, mid, to, job) ==
  /\ Phrase(from.words) # Phrase(mid.words)
  /\ ~(Cardinality(SharedAB(from, mid)) < EffectiveMinFiles(job) /\ from.hasFiles)
  /\ Phrase(to.words) # Phrase(mid.words)
  /\ Phrase(to.words) # Phrase(from.words)
  /\ ~(Cardinality(SharedABC(from, mid, to)) < EffectiveMinFiles(job) /\ to.hasFiles)

\* chainKey := fromPhrase + "|" + midPhrase + "|" + toPhrase
LinkedKey(from, mid, to) ==
  Phrase(from.words) \o <<Pipe>> \o Phrase(mid.words) \o <<Pipe>> \o Phrase(to.words)

LinkedChain(from, mid, to) ==
  [segments |-> <<[phrase |-> Phrase(from.words), n |-> from.n, count |-> from.count],
                  [phrase |-> Phrase(mid.words), n |-> mid.n, count |-> mid.count],
                  [phrase |-> Phrase(to.words), n |-> to.n, count |-> to.count]>>,
   fullText |-> Phrase(from.words) \o Rest(mid) \o Rest(to),
   chainLength |-> 3,
   fileCount |-> LinkedFileCount(from, mid, to),
   files |-> FileList(SharedABC(from, mid, to), LoadFileIndex, ShownFilesChain)]

\* the (from, mid, to) triples in the order the four loops visit them
LinkedCandidates(entries, keyOrder) ==
  Flatten([k \in DOMAIN keyOrder |->
    LET endList == EndList(entries, keyOrder[k])
        midList == StartList(entries, keyOrder[k])
    IN Flatten([i \in DOMAIN endList |->
         Flatten([j \in DOMAIN midList |->
           LET toList == StartList(entries, EndKey(midList[j]))
           IN [h \in DOMAIN toList |->
                 [from |-> endList[i], mid |-> midList[j], to |-> toList[h]]]])])])

RECURSIVE CollectLinked(_, _, _, _)
CollectLinked(cands, chains, seen, job) ==
  IF cands = <<>> \/ Len(chains) >= TripleCap THEN chains
  ELSE LET from == Head(cands).from
           mid == Head(cands).mid
           to == Head(cands).to
       IN IF LinkedKept(from, mid, to, job) /\ LinkedKey(from, mid, to) \notin seen
          THEN CollectLinked(Tail(cands), Append(chains, LinkedChain(from, mid, to)),
                             seen \cup {LinkedKey(from, mid, to)}, job)
          ELSE CollectLinked(Tail(cands), chains, seen, job)

LinkedChains(job, keyOrder) ==
  LET entries == LoadedEntries(LinkedMinN(job), server.MaxN, TripleLoadLimit, job.SkipNumeric)
  IN Take(SortChains(job.Type,
                     CollectLinked(LinkedCandidates(entries, keyOrder), <<>>, {}, job), <<>>),
          ReportCap)

LinkedKeyOrders(job) ==
  MapOrders(EndKeys(LoadedEntries(LinkedMinN(job), server.MaxN, TripleLoadLimit,
                                  job.SkipNumeric)))

generateLinkedNgramsReport(req) ==
  LET job == Job("linked_ngrams", req)
  IN /\ MayRun(job)
     /\ \E keyOrder \in LinkedKeyOrders(job) :
          report' = [type |-> job.Type, job |-> job, chains |-> LinkedChains(job, keyOrder)]
     /\ UNCHANGED <<run, corpus, cacheVars, lastRun, server>>

\* ------------------------------------------------------- best-chains search
BestMinN(job) == IF job.MinN < 2 THEN QueueMinNChains ELSE job.MinN

BestTopN(job) == IF job.TopN <= 0 THEN DefaultTopN ELSE job.TopN

\* the orders minN..maxN in the order their loaders deliver
LoadOrders(job) ==
  LET up == [k \in 1..(server.MaxN - BestMinN(job) + 1) |-> BestMinN(job) + k - 1]
  IN {up, Reverse(up)}

\* the entries in the order the result channel hands them over
BestEntries(job, loadOrder) ==
  Flatten([k \in DOMAIN loadOrder |->
     SelectSeq(loadNgramsWithFiles(loadOrder[k], BestTopN(job)),
               LAMBDA ng : ~(Len(ng.words) < 2 \/ (job.SkipNumeric /\ isNumericOnly(ng.words))))])

\* shared files * 1000 + count
LinkScore(sharedFiles, next) ==
  (IF sharedFiles # {} /\ next.hasFiles THEN Cardinality(sharedFiles \cap next.files) ELSE 0)
    * 1000 + next.count

\* the position in nextList of the best next n-gram, 0 when there is none
BestNext(nextList, current, sharedFiles) ==
  LET eligible == {i \in DOMAIN nextList : Phrase(nextList[i].words) # Phrase(current.words)}
  IN IF eligible = {} THEN 0
     ELSE CHOOSE i \in eligible :
            \A j \in eligible :
               \/ LinkScore(sharedFiles, nextList[j]) < LinkScore(sharedFiles, nextList[i])
               \/ (LinkScore(sharedFiles, nextList[j]) = LinkScore(sharedFiles, nextList[i])
                     /\ i <= j)

RECURSIVE FollowOneMore(_, _, _, _)
\* Follow taking one link more than MaxHops
FollowOneMore(entries, chain, sharedFiles, depth) ==
  LET current == chain[Len(chain)]
      nextList == StartList(entries, EndKey(current))
      best == BestNext(nextList, current, sharedFiles)
  IN IF depth > MaxHops \/ best = 0 THEN [chain |-> chain, sharedFiles |-> sharedFiles]
     ELSE LET bestNext == nextList[best]
          IN FollowOneMore(entries, Append(chain, bestNext),
                    IF sharedFiles # {} /\ bestNext.hasFiles THEN sharedFiles \cap bestNext.files
                    ELSE IF bestNext.hasFiles THEN bestNext.files
                    ELSE sharedFiles,
                    depth + 1)

RECURSIVE Follow(_, _, _, _)
\* the chain followed forward from its last member, at most MaxHops links
Follow(entries, chain, sharedFiles, depth) ==
  LET current == chain[Len(chain)]
      nextList == StartList(entries, EndKey(current))
      best == BestNext(nextList, current, sharedFiles)
  IN IF depth >= MaxHops \/ best = 0 THEN [chain |-> chain, sharedFiles |-> sharedFiles]
     ELSE LET bestNext == nextList[best]
          IN Follow(entries, Append(chain, bestNext),
                    IF sharedFiles # {} /\ bestNext.hasFiles THEN sharedFiles \cap bestNext.files
                    ELSE IF bestNext.hasFiles THEN bestNext.files
                    ELSE sharedFiles,
                    depth + 1)

RECURSIVE ChainText(_)
ChainText(chain) ==
  IF Len(chain) = 1 THEN Phrase(chain[1].words)
  ELSE ChainText(SubSeq(chain, 1, Len(chain) - 1)) \o Rest(chain[Len(chain)])

BestChain(followed) ==
  LET fullText == ChainText(followed.chain)
  IN [segments |-> [i \in DOMAIN followed.chain |->
                      [phrase |-> Phrase(followed.chain[i].words),
                       n |-> followed.chain[i].n,
                       count |-> followed.chain[i].count]],
      fullText |-> fullText,
      wordCount |-> Len(fullText),
      fileCount |-> Cardinality(followed.sharedFiles),
      score |-> Len(fullText) * Cardinality(followed.sharedFiles),
      files |-> FileList(followed.sharedFiles, LoadFileIndex, ShownFilesChain)]

\* the start n-grams in the order the two outer loops visit them
BestStarts(entries, keyOrder) ==
  Flatten([k \in DOMAIN keyOrder |-> EndList(entries, keyOrder[k])])

RECURSIVE CollectBest(_, _, _, _)
CollectBest(entries, starts, chains, seen) ==
  IF starts = <<>> THEN chains
  ELSE LET followed == Follow(entries, <<Head(starts)>>, Head(starts).files, 0)
           c == BestChain(followed)
       IN IF Len(followed.chain) >= 2 /\ c.fullText \notin seen
          THEN CollectBest(entries, Tail(starts), Append(chains, c), seen \cup {c.fullText})
          ELSE CollectBest(entries, Tail(starts), chains, seen)

BestChains(job, loadOrder, keyOrder) ==
  LET entries == BestEntries(job, loadOrder)
  IN Take(SortChains(job.Type, CollectBest(entries, BestStarts(entries, keyOrder), <<>>, {}),
                     <<>>),
          ReportCap)

generateBestChainsReport(req) ==
  LET job == Job("best_chains", req)
  IN /\ MayRun(job)
     /\ \E loadOrder \in LoadOrders(job) :
          \E keyOrder \in MapOrders(EndKeys(BestEntries(job, loadOrder))) :
             report' = [type |-> job.Type, job |-> job,
                        chains |-> BestChains(job, loadOrder, keyOrder)]
     /\ UNCHANGED <<run, corpus, cacheVars, lastRun, server>>

\* StartServer: the cache directory is served with the given maximal order
StartServer(maxN) ==
  /\ ~server.up
  /\ server' = [up |-> TRUE, MaxN |-> maxN]
  /\ lastRun' = [stage |-> "none", maxN |-> 0, err |-> FALSE]
  /\ UNCHANGED <<run, corpus, cacheVars, report>>

\* the report is read and the worker takes the next job
ViewReport ==
  /\ report # NoReport
  /\ report' = NoReport
  /\ UNCHANGED <<run, corpus, cacheVars, lastRun, server>>

\* the directories of at most MaxFiles files with texts from a list of
\* documents, files in document order
Corpora(docs) ==
  UNION {{t \in [1..k -> DOMAIN docs] : \A i \in 1..(k - 1) : t[i] <= t[i + 1]} :
           k \in 1..MaxFiles}
Texts(docs, t) == [i \in DOMAIN t |-> docs[t[i]]]
Directory(texts) ==
  [i \in DOMAIN texts |-> [name |-> FileNames[i], text |-> texts[i], readable |-> TRUE]]

InitCache ==
  /\ settings = NoFile /\ uniq = NoFile /\ filesTxt = NoFile /\ fileuniqindex = NoFile
  /\ uniqNgram = [n \in Orders |-> NoFile]
  /\ gramindex = [n \in Orders |-> NoFile]
  /\ gramfreq = [n \in Orders |-> NoFile]
  /\ gramfiles = [n \in Orders |-> NoFile]
  /\ lastRun = [stage |-> "none", maxN |-> 0, err |-> FALSE]
  /\ server = [up |-> FALSE, MaxN |-> 0]
  /\ report = NoReport

NoRun == [pc |-> "none"]

Init ==
  /\ \E t \in Corpora(Docs) : corpus = Directory(Texts(Docs, t))
  /\ InitCache
  /\ run = NoRun

\* ------------------------------------------------------- the stage runs
\* the directory the stage runs start from
StageDirectory == Directory(<<DocB, DocTail>>)

RemoveAt(s, i) == SubSeq(s, 1, i - 1) \o SubSeq(s, i + 1, Len(s))

\* between two stage runs a file is deleted from the input directory
ChangeCorpus ==
  /\ ~server.up
  /\ \E i \in DOMAIN corpus : corpus' = RemoveAt(corpus, i)
  /\ lastRun' = [stage |-> "none", maxN |-> 0, err |-> FALSE]
  /\ UNCHANGED <<run, cacheVars, server, report>>

InitStages == corpus = StageDirectory /\ InitCache /\ run = NoRun

\* the -ngrams values the chain pipeline is built with
ChainOrders == (MaxOrder - 1)..MaxOrder

Next ==
  \/ BuildTokenCache
  \/ \E maxN \in ChainOrders : BuildNgramCache(maxN)
  \/ \E maxN \in ChainOrders : BuildNgramFreqCache(maxN)
  \/ \E maxN \in ChainOrders : StartServer(maxN)
  \/ \E req \in Requests : generateRecurringTextReport(req)
  \/ \E req \in Requests : generateLinkedNgramsReport(req)
  \/ \E req \in Requests : generateBestChainsReport(req)
  \/ ViewReport

Spec == Init /\ [][Next]_vars

NextStages ==
  \/ BuildTokenCache
  \/ BuildIndexCache
  \/ \E maxN \in ChainOrders : BuildNgramCache(maxN)
  \/ \E maxN \in ChainOrders : BuildNgramFreqCache(maxN)
  \/ \E maxN \in ChainOrders : BuildNgramFilesCache(maxN)
  \/ ChangeCorpus

SpecStages == InitStages /\ [][NextStages]_vars

\* ------------------------------------------------ properties of the reports
Chains == IF report = NoReport THEN <<>> ELSE report.chains

RECURSIVE MinOf(_)
MinOf(s) == IF Len(s) = 1 THEN s[1] ELSE Min(s[1], MinOf(Tail(s)))

SegmentCounts(c) == [i \in DOMAIN c.segments |-> c.segments[i].count]

\* the text holds the phrase as a contiguous run of words
OccursIn(text, phrase) ==
  \E i \in 1..(Len(text) - Len(phrase) + 1) : SubSeq(text, i, i + Len(phrase) - 1) = phrase

\* the text of the corpus file of that name
TextOf(name) == corpus[CHOOSE i \in DOMAIN corpus : corpus[i].name = name].text

\* C1: every chain returned by the pairwise, the 3-hop and the best-chains
\* search, on any mix of file-membership and frequency-only data, reports a
\* file count no greater than the least count of its segments.
FileCountWithinSegmentCounts ==
  \A i \in DOMAIN Chains : Chains[i].fileCount <= MinOf(SegmentCounts(Chains[i]))

\* C2: in every chain returned by the three searches the last 2 words of
\* each segment but the last are the first 2 words of the segment after it.
SegmentsOverlapByTwoWords ==
  \A i \in DOMAIN Chains :
     \A k \in 1..(Len(Chains[i].segments) - 1) :
        LET a == Chains[i].segments[k].phrase
            b == Chains[i].segments[k + 1].phrase
        IN /\ Len(a) >= 2 /\ Len(b) >= 2
           /\ SubSeq(a, Len(a) - 1, Len(a)) = SubSeq(b, 1, 2)

\* a best-chains report holds a chain of three segments
OverlapWitness ==
  /\ report # NoReport /\ report.type = "best_chains"
  /\ \E i \in DOMAIN Chains : Len(Chains[i].segments) >= 3

\* C3: no two chains of one report (pairwise, 3-hop, best-chains) have the
\* same merged full text.
MergedTextsDistinct ==
  \A i, j \in DOMAIN Chains : i # j => Chains[i].fullText # Chains[j].fullText

\* C4: a chain search asked for more files than the corpus has returns an
\* empty chain list.
MinFilesAboveCorpusGivesNoChains ==
  (report # NoReport /\ report.job.MinFiles > Len(corpus)) => Chains = <<>>

\* C5: running the pairwise search again on the same persisted data with the
\* same parameters yields the same set of chains.
PairwiseRerunSameChains ==
  [][(/\ report # NoReport /\ report' # NoReport
      /\ report.type = "recurring_text" /\ report'.type = "recurring_text"
      /\ report'.job = report.job /\ UNCHANGED cacheVars)
       => Range(report'.chains) = Range(report.chains)]_vars

\* the scenario: files A, B and C of the three texts, the dictionary and
\* the n-gram index of orders 3 and 4 built from them, served
ScenarioServed ==
  /\ [i \in DOMAIN corpus |-> corpus[i].text] = <<DocA, DocB, DocC>>
  /\ uniq.exists /\ gramindex[3].exists /\ gramindex[4].exists
  /\ server.up

\* the file count the server loads for the n-gram of these words
LoadedCounts(words) ==
  {e.count : e \in {x \in Range(loadNgramsWithFiles(Len(words), 0)) : x.words = Text(words)}}

\* a pairwise report of the scenario asked with minFiles = 2
ScenarioReport ==
  /\ ScenarioServed
  /\ report # NoReport /\ report.type = "recurring_text"
  /\ report.job.MinFiles = 2

\* C6 as stated: in the scenario the 4-gram "quick brown fox jumps" has file
\* count 2 and the pairwise search with minFiles = 2 returns a chain with
\* merged text "the quick brown fox jumps over" in files A and B.
ScenarioReturnsSixWordChain ==
  ScenarioReport =>
    /\ LoadedCounts(<<"quick", "brown", "fox", "jumps">>) = {2}
    /\ \E i \in DOMAIN Chains :
         /\ Chains[i].fullText = Text(<<"the", "quick", "brown", "fox", "jumps", "over">>)
         /\ Chains[i].files = {"A", "B"}

\* C6 amended: in the scenario the 4-gram "quick brown fox jumps" has file
\* count 2, and the pairwise search with minFiles = 2 returns no chain with
\* merged text "the quick brown fox jumps over".
ScenarioReturnsNoSixWordChain ==
  ScenarioReport =>
    /\ LoadedCounts(<<"quick", "brown", "fox", "jumps">>) = {2}
    /\ \A i \in DOMAIN Chains :
         Chains[i].fullText # Text(<<"the", "quick", "brown", "fox", "jumps", "over">>)

\* the scenario's pairwise report over the orders 3 and 4 returns a chain
ScenarioWitness == ScenarioReport /\ report.job.MinN = 3 /\ server.MaxN = 4 /\ Chains # <<>>

\* C7: the merged text of every chain the pairwise search returns from
\* file-membership data occurs verbatim, as a contiguous word sequence, in
\* every file the chain reports.
MergedTextInEveryReportedFile ==
  (report # NoReport /\ report.type = "recurring_text") =>
     \A i \in DOMAIN Chains :
        \A f \in Chains[i].files : OccursIn(TextOf(f), Chains[i].fullText)

\* ---------------------------------------------- properties of the stage runs
\* the file IDs of a word -> files or n-gram -> files artifact
ListedIds(a) ==
  UNION {{e.file : e \in Range(ReverseEntries(a.lines[i]))} : i \in DOMAIN a.lines}

\* the file IDs of a file -> n-grams artifact: the number each line starts with
HeadIds(a) ==
  {Sscanf(SubSeq(a.lines[i], 1, IndexCommaBracket(a.lines[i]) - 1)) : i \in DOMAIN a.lines}

\* the artifacts that store file IDs, each with the IDs it stores
IdArtifacts ==
  {[file |-> fileuniqindex, ids |-> ListedIds(fileuniqindex)]}
    \cup {[file |-> gramindex[n], ids |-> ListedIds(gramindex[n])] : n \in Orders}
    \cup {[file |-> gramfiles[n], ids |-> HeadIds(gramfiles[n])] : n \in Orders}

\* every ID of the artifact is an index into the current file table and
\* names the file it named when the artifact was written
IdsHold(x) ==
  \A id \in x.ids :
     /\ id < Len(filesTxt.lines) /\ id < Len(x.file.table)
     /\ filesTxt.lines[id + 1] = x.file.table[id + 1]

\* C8 as stated: after any sequence of stage runs, a dictionary rebuild on a
\* changed corpus included, every file ID stored in a persisted artifact is
\* a valid index into the current file table and refers to the file it
\* referred to when the artifact was written.
FileIdsAlwaysHold == \A x \in IdArtifacts : x.file.exists => IdsHold(x)

\* C8 amended: after any sequence of stage runs every file ID stored in a
\* persisted artifact is a valid index into the current file table and
\* refers to the file it referred to when the artifact was written, as long
\* as files.txt still has the content it had when the artifact was written.
FileIdsHoldWhileTableKept ==
  \A x \in IdArtifacts :
     (x.file.exists /\ x.file.table = filesTxt.lines) => IdsHold(x)

\* a file was deleted and the dictionary rebuilt: the index of the largest
\* order is of the old file table, the next smaller one was rebuilt
StaleAndFreshIndex ==
  /\ corpus # StageDirectory /\ filesTxt.exists
  /\ filesTxt.lines = [i \in DOMAIN corpus |-> corpus[i].name]
  /\ gramindex[MaxOrder].exists /\ gramindex[MaxOrder].table # filesTxt.lines
  /\ gramindex[MaxOrder - 1].exists /\ gramindex[MaxOrder - 1].table = filesTxt.lines
  /\ ListedIds(gramindex[MaxOrder - 1]) # {}

\* C9: a builder run again right after itself, on the unchanged corpus and
\* dictionary, leaves every artifact with the content it had.
RerunWritesSameBytes ==
  [][(/\ lastRun.stage # "none"
      /\ lastRun'.stage = lastRun.stage /\ lastRun'.maxN = lastRun.maxN)
       => cacheVars' = cacheVars]_vars

\* ------------------------------------------- the stages and their inputs
\* the directory the stages below are run on: its last file is one line too
\* long for the scanner
PrereqDirectory == Directory(<<DocB, DocTail, DocLong>>)

\* the input directory, some of its files no longer to be opened, and a cache
\* directory that holds some of the three dictionary files, as
\* BuildTokenCache wrote them when every file could be opened, and nothing
\* else: the build was cut short after one of its writes, or files were
\* removed afterwards
InitPrereq ==
  /\ \E unreadable \in SUBSET DOMAIN PrereqDirectory :
        corpus = [i \in DOMAIN PrereqDirectory |->
                    [PrereqDirectory[i] EXCEPT !.readable = i \notin unreadable]]
  /\ \E present \in SUBSET {"settings.txt", "uniq.txt", "files.txt"} :
        /\ settings = IF "settings.txt" \in present THEN File(<<InputDir>>) ELSE NoFile
        /\ uniq = IF "uniq.txt" \in present
                  THEN File(SortSet(UNION {Range(ScanWords(PrereqDirectory[i].text)) :
                                             i \in DOMAIN PrereqDirectory}))
                  ELSE NoFile
        /\ filesTxt = IF "files.txt" \in present
                      THEN File([i \in DOMAIN PrereqDirectory |-> PrereqDirectory[i].name])
                      ELSE NoFile
  /\ fileuniqindex = NoFile
  /\ uniqNgram = [n \in Orders |-> NoFile]
  /\ gramindex = [n \in Orders |-> NoFile]
  /\ gramfreq = [n \in Orders |-> NoFile]
  /\ gramfiles = [n \in Orders |-> NoFile]
  /\ lastRun = [stage |-> "none", maxN |-> 0, err |-> FALSE]
  /\ server = [up |-> FALSE, MaxN |-> 0]
  /\ report = NoReport
  /\ run = NoRun

NextPrereq ==
  \/ BuildTokenCache
  \/ BuildIndexCache
  \/ \E maxN \in ChainOrders : BuildNgramCache(maxN)
  \/ \E maxN \in ChainOrders : BuildNgramFreqCache(maxN)
  \/ \E maxN \in ChainOrders : BuildNgramFilesCache(maxN)

SpecPrereq == InitPrereq /\ [][NextPrereq]_vars

\* the orders a run of the reverse-index builder with that -ngrams value asks
\* for and finds no n-gram index of
MissingIndexOrders(maxN) == {n \in 2..maxN : ~gramindex[n].exists}

\* one of the dictionary's three files is not in the cache directory, or
\* settings.txt names no input directory
DictionaryIncomplete ==
  ~settings.exists \/ settings.lines = <<>> \/ ~uniq.exists \/ ~filesTxt.exists

ReadableFiles == {i \in DOMAIN corpus : corpus[i].readable}

\* the distinct whitespace-delimited words of the files that can be opened
CorpusWords == UNION {Range(corpus[i].text) : i \in ReadableFiles}

\* C14: after the dictionary build the word IDs are a bijection between
\* [0, V) and the distinct words of all readable scanned files: the word
\* table holds exactly those words, none twice, word_table[id(w)] = w for
\* every corpus word w, and the IDs increase strictly in word order.
WordIdsAreBijection ==
  (lastRun.stage = "tokens") =>
     /\ Range(uniq.lines) = CorpusWords
     /\ \A i, j \in DOMAIN uniq.lines : i < j => uniq.lines[i] < uniq.lines[j]
     /\ \A w \in CorpusWords :
          w \in DOMAIN WordToIndex /\ uniq.lines[WordToIndex[w] + 1] = w

\* the file IDs one line of an index lists
LineIds(line) == {e.file : e \in Range(ReverseEntries(line))}

\* the ID one line of an index starts with
LineHead(line) == Sscanf(SubSeq(line, 1, IndexCommaBracket(line) - 1))

\* the file of that ID of the file table can be opened and holds the word
FileHoldsWord(f, w) ==
  /\ f >= 0 /\ f < Len(filesTxt.lines)
  /\ \E i \in ReadableFiles :
        corpus[i].name = filesTxt.lines[f + 1] /\ w \in Range(corpus[i].text)

\* C15: in the word->files index built from a dictionary, every file listed
\* for a word ID holds that word when tokenized again; the index has one
\* line per word ID in [0, V), in ID order, each listing sorted file IDs,
\* and the empty list for a word found in no file.
WordIndexRoundTrip ==
  (lastRun.stage = "index" /\ ~lastRun.err) =>
     /\ Len(fileuniqindex.lines) = Len(uniq.lines)
     /\ \A k \in DOMAIN fileuniqindex.lines :
          LET line == fileuniqindex.lines[k]
          IN /\ LineHead(line) = k - 1
             /\ line = ListLine(k - 1, SortSet(LineIds(line)))
             /\ \A f \in LineIds(line) : FileHoldsWord(f, uniq.lines[k])
             /\ (\A f \in 0..(Len(filesTxt.lines) - 1) : ~FileHoldsWord(f, uniq.lines[k]))
                   => line = <<k - 1, Comma, LBracket, RBracket>>

\* a word index was built in which a word of the dictionary is in no file
\* and another word is listed with a file
WordIndexWithEmptyList ==
  /\ lastRun.stage = "index" /\ ~lastRun.err
  /\ \E k \in DOMAIN fileuniqindex.lines : LineIds(fileuniqindex.lines[k]) = {}
  /\ \E k \in DOMAIN fileuniqindex.lines : LineIds(fileuniqindex.lines[k]) # {}

\* the word-ID windows of width n of the files of the file table that can be
\* opened, each file tokenized whole through the dictionary
CorpusWindows(n) ==
  Flatten([i \in DOMAIN filesTxt.lines |->
     IF \E j \in ReadableFiles : corpus[j].name = filesTxt.lines[i]
     THEN Windows(WordIds(corpus[CHOOSE j \in ReadableFiles :
                                   corpus[j].name = filesTxt.lines[i]].text, WordToIndex), n)
     ELSE <<>>])

\* the occurrences of an n-gram over all those files
CorpusCount(n, key) ==
  Cardinality({i \in DOMAIN CorpusWindows(n) : CorpusWindows(n)[i] = key})

\* the n-gram and the count of a line of a frequency table
FreqKey(line) == SubSeq(line, 1, LastComma(line) - 1)
FreqCount(line) == Atoi(SubSeq(line, LastComma(line) + 1, Len(line)))

\* C16: for every order n in [2, maxN] the persisted frequency table holds
\* exactly the n-grams that occur at least twice over all files: none with
\* count 1, every n-gram with count >= 2 once and with its exact count, the
\* lines in non-increasing count order.
FreqTableExact ==
  (lastRun.stage = "ngramfreq" /\ ~lastRun.err) =>
     \A n \in 2..lastRun.maxN :
        LET ls == gramfreq[n].lines
        IN /\ gramfreq[n].exists
           /\ \A i \in DOMAIN ls :
                 FreqCount(ls[i]) >= 2 /\ FreqCount(ls[i]) = CorpusCount(n, FreqKey(ls[i]))
           /\ \A key \in Range(CorpusWindows(n)) :
                 CorpusCount(n, key) >= 2 =>
                    Cardinality({i \in DOMAIN ls : FreqKey(ls[i]) = key}) = 1
           /\ \A i, j \in DOMAIN ls : i < j => FreqCount(ls[i]) >= FreqCount(ls[j])

\* the scenario directory: A = "the quick brown fox jumps",
\* B = "quick brown fox jumps over", C = "lazy dog sleeps all day"
ScenarioCorpus == [i \in DOMAIN corpus |-> corpus[i].text] = <<DocA, DocB, DocC>>

\* C17 as stated: on the scenario directory the dictionary build yields a
\* word table of exactly 9 entries and a file table of exactly 3 entries.
ScenarioWordTableOfNine ==
  (ScenarioCorpus /\ lastRun.stage = "tokens") =>
     Len(uniq.lines) = 9 /\ Len(filesTxt.lines) = 3

\* C17 amended: on the scenario directory the dictionary build yields a word
\* table of exactly 11 entries, the 11 distinct words of the three files, and
\* a file table of exactly 3 entries.
ScenarioWordTableOfEleven ==
  (ScenarioCorpus /\ lastRun.stage = "tokens") =>
     /\ Len(uniq.lines) = 11
     /\ Range(uniq.lines) = Range(DocA) \cup Range(DocB) \cup Range(DocC)
     /\ Len(filesTxt.lines) = 3

ScenarioDictionaryBuilt ==
  /\ ScenarioCorpus /\ lastRun.stage = "tokens"
  /\ Cardinality(Range(uniq.lines)) = 11 /\ filesTxt.lines = <<"A", "B", "C">>

\* the (head, member) pairs an index lists: the ID each line starts with,
\* with each ID of its bracketed list
ListedPairs(a) ==
  UNION {{<<LineHead(a.lines[i]), id>> : id \in LineIds(a.lines[i])} : i \in DOMAIN a.lines}

\* the reverse index of order n lists g under f exactly when the n-gram index
\* lists f under g, each list sorted ascending, one line per file ID of the
\* file table in ID order
ExactInverse(n) ==
  /\ gramfiles[n].exists
  /\ ListedPairs(gramfiles[n]) = {<<p[2], p[1]>> : p \in ListedPairs(gramindex[n])}
  /\ Len(gramfiles[n].lines) = Len(filesTxt.lines)
  /\ \A f \in DOMAIN gramfiles[n].lines :
        gramfiles[n].lines[f] = ListLine(f - 1, SortSet(LineIds(gramfiles[n].lines[f])))

\* C18 as stated: after a reverse-index build, for every order n whose n-gram
\* index exists, the reverse index is the exact inverse of it: g is listed
\* under f if and only if f is listed under g, each file's list is sorted
\* ascending, and there is exactly one line per file ID in [0, F) in ID order.
ReverseIndexIsExactInverse ==
  (lastRun.stage = "ngramfiles" /\ ~lastRun.err) =>
     \A n \in 2..lastRun.maxN : gramindex[n].exists => ExactInverse(n)

\* C18 amended: the same, for every order n whose n-gram index exists and was
\* written against the file table files.txt holds at the reverse build.
ReverseIndexInvertsCurrentIndex ==
  (lastRun.stage = "ngramfiles" /\ ~lastRun.err) =>
     \A n \in 2..lastRun.maxN :
        (gramindex[n].exists /\ gramindex[n].table = filesTxt.lines) => ExactInverse(n)

\* a reverse index built from an index of the current file table, with an
\* n-gram in two files and a file holding two n-grams
ReverseIndexBuilt ==
  /\ lastRun.stage = "ngramfiles" /\ ~lastRun.err
  /\ \E n \in 2..lastRun.maxN :
        /\ gramindex[n].exists /\ gramindex[n].table = filesTxt.lines
        /\ \E i \in DOMAIN gramindex[n].lines : Cardinality(LineIds(gramindex[n].lines[i])) >= 2
        /\ \E f \in DOMAIN gramfiles[n].lines : Cardinality(LineIds(gramfiles[n].lines[f])) >= 2

\* C19: for every order n with both the n-gram table and the n-gram->files
\* table present, the file set loadNgramsWithFiles produces for an n-gram is
\* exactly the set of file IDs the n-gram index builder persisted for it, and
\* the loaded count is that set's size.
LoaderKeepsPersistedFileSet ==
  \A n \in Orders :
     (uniqNgram[n].exists /\ gramindex[n].exists) =>
        LET loaded == loadNgramsWithFiles(n, 0)
        IN \A i \in DOMAIN loaded :
              /\ loaded[i].files = LineIds(gramindex[n].lines[i])
              /\ loaded[i].count = Cardinality(LineIds(gramindex[n].lines[i]))

\* C20: every chain returned by the pairwise search and every triple returned
\* by the 3-hop search has a reported file count (the intersection size, or
\* the frequency-based estimate where file data is unavailable) of at least
\* max(2, minFiles).
FileCountReachesMinFiles ==
  (report # NoReport /\ report.type \in {"recurring_text", "linked_ngrams"}) =>
     \A i \in DOMAIN report.chains :
        /\ report.chains[i].fileCount >= 2
        /\ report.chains[i].fileCount >= report.job.MinFiles

\* --------------------------------------------- the best-chains search alone
\* a file whose n-grams link in a cycle
DocCycle == Text(<<"fox", "jumps", "fox", "jumps", "fox">>)

\* the directories the best-chains search is run on
BestDirectories == {Directory(<<DocA, DocB, DocTail>>), Directory(<<DocCycle, DocCycle>>)}

\* best_chains requests: 2-grams included or not, the default topN or a small one
BestRequests == [MinN : {2, 3}, MinFiles : {0}, SkipNumeric : {FALSE}, TopN : {0, 2}]

InitBest ==
  /\ corpus \in BestDirectories
  /\ InitCache
  /\ run = NoRun

NextBest ==
  \/ BuildTokenCache
  \/ \E maxN \in ChainOrders : BuildNgramCache(maxN)
  \/ \E maxN \in ChainOrders : BuildNgramFreqCache(maxN)
  \/ \E maxN \in ChainOrders : StartServer(maxN)
  \/ \E req \in BestRequests : generateBestChainsReport(req)
  \/ ViewReport

SpecBest == InitBest /\ [][NextBest]_vars

\* the occurrences of a run of words over the files of the corpus
TextCount(words) ==
  Cardinality(UNION {{<<i, k>> : k \in {j \in 1..(Len(corpus[i].text) - Len(words) + 1) :
                          SubSeq(corpus[i].text, j, j + Len(words) - 1) = words}} :
                       i \in DOMAIN corpus})

\* the n-grams of order n of the corpus
TextNgrams(n) ==
  UNION {{SubSeq(corpus[i].text, k, k + n - 1) : k \in 1..(Len(corpus[i].text) - n + 1)} :
           i \in DOMAIN corpus}

\* the cap a report loads each order with, and the smallest order it loads
ReportLoadLimit ==
  CASE report.type = "recurring_text" -> PairLoadLimit
    [] report.type = "linked_ngrams" -> TripleLoadLimit
    [] OTHER -> BestTopN(report.job)
ReportMinN ==
  CASE report.type = "recurring_text" -> PairMinN(report.job)
    [] report.type = "linked_ngrams" -> LinkedMinN(report.job)
    [] OTHER -> BestMinN(report.job)

\* C23: for each order n the at most K n-grams a chain search loads (K = 200
\* pairwise, 300 3-hop, topN best-chains) are the K n-grams of that order
\* with the highest frequency: no n-gram left out occurs more often than a
\* loaded one, with file-membership data and in the frequency-only fallback.
LoadedAreMostFrequent ==
  report # NoReport =>
     \A n \in ReportMinN..server.MaxN :
        LET entries == loadNgramsWithFiles(n, ReportLoadLimit)
            loaded == {entries[i].words : i \in DOMAIN entries}
        IN \A l \in loaded : \A w \in TextNgrams(n) \ loaded : TextCount(l) >= TextCount(w)

\* ------------------------------------------- one hop of the best-chains search
\* The server reads the cache directory only.  The cache directories below
\* are of a corpus of up to MaxFiles files in which "quick brown fox",
\* "brown fox jumps" and "fox jumps over" were indexed by cache -ngrams 3,
\* and of a later, larger state of it counted by cache -ngramfreq 4.
HopWords == Text(<<"brown", "fox", "jumps", "over", "quick">>)
HopTrigrams == <<<<4, 0, 1>>, <<0, 1, 2>>, <<1, 2, 3>>>>
HopTetragrams == <<<<4, 0, 1, 2>>, <<0, 1, 2, 3>>>>

\* the occurrence counts of the 4-grams
HopCounts == {2, 1500}

\* the file sets of the three 3-grams: IDs are given in first-seen order, so
\* a later ID is not first seen in an earlier file
HopFileSets ==
  {fs \in [1..3 -> (SUBSET (0..(MaxFiles - 2))) \ {{}}] :
     \A g \in 1..2 : \A f \in fs[g + 1] : \E h \in fs[g] : h <= f}

InitHop ==
  /\ corpus = <<>>
  /\ settings = File(<<InputDir>>)
  /\ uniq = File(HopWords)
  /\ filesTxt = File(SubSeq(FileNames, 1, MaxFiles - 1))
  /\ fileuniqindex = NoFile
  /\ uniqNgram = [n \in Orders |->
        IF n = 3 THEN File([g \in 1..3 |-> NgramKey(HopTrigrams[g])]) ELSE NoFile]
  /\ \E fs \in HopFileSets :
        gramindex = [n \in Orders |->
           IF n = 3 THEN IndexFile([g \in 1..3 |-> ListLine(g - 1, SortSet(fs[g]))])
           ELSE NoFile]
  /\ \E counts \in [1..2 -> HopCounts] : \E first \in 1..2 :
        /\ counts[first] >= counts[3 - first]
        /\ gramfreq = [n \in Orders |->
              IF n = 4
              THEN File(<<NgramKey(HopTetragrams[first]) \o <<Comma, counts[first]>>,
                          NgramKey(HopTetragrams[3 - first]) \o <<Comma, counts[3 - first]>>>>)
              ELSE NoFile]
  /\ gramfiles = [n \in Orders |-> NoFile]
  /\ lastRun = [stage |-> "none", maxN |-> 0, err |-> FALSE]
  /\ server = [up |-> FALSE, MaxN |-> 0]
  /\ report = NoReport
  /\ run = NoRun

HopRequests == [MinN : {3}, MinFiles : {0}, SkipNumeric : {FALSE}, TopN : {0}]

NextHop ==
  \/ \E maxN \in ChainOrders : StartServer(maxN)
  \/ \E req \in HopRequests : generateBestChainsReport(req)
  \/ ViewReport

SpecHop == InitHop /\ [][NextHop]_vars

\* the loaded n-grams the report's search ran over
ReportEntries == BestEntries(report.job, CHOOSE o \in LoadOrders(report.job) : TRUE)

\* the loaded n-gram a segment of a chain stands for
EntryOf(seg) ==
  CHOOSE e \in Range(ReportEntries) : e.n = seg.n /\ Phrase(e.words) = seg.phrase

RECURSIVE RunningFiles(_, _)
\* the running shared-file set after the first k segments of a chain
RunningFiles(segments, k) ==
  IF k = 1 THEN EntryOf(segments[1]).files
  ELSE LET before == RunningFiles(segments, k - 1)
           e == EntryOf(segments[k])
       IN IF before # {} /\ e.hasFiles THEN before \cap e.files
          ELSE IF e.hasFiles THEN e.files
          ELSE before

\* the files a candidate shares with the running set
Overlap(running, e) == IF e.hasFiles THEN Cardinality(running \cap e.files) ELSE 0

\* C24: at each hop of the best-chains search the chosen continuation has
\* maximal shared-file overlap with the running file set among all the
\* candidates that share the current 2-word boundary, the current n-gram
\* excluded; the count decides only between candidates of equal overlap.
ChosenHasMaximalOverlap ==
  (report # NoReport /\ report.type = "best_chains") =>
     \A c \in Range(report.chains) : \A k \in 1..(Len(c.segments) - 1) :
        LET current == EntryOf(c.segments[k])
            chosen == EntryOf(c.segments[k + 1])
            running == RunningFiles(c.segments, k)
        IN \A cand \in Range(StartList(ReportEntries, EndKey(current))) :
              Phrase(cand.words) # Phrase(current.words) =>
                 /\ Overlap(running, chosen) >= Overlap(running, cand)
                 /\ Overlap(running, chosen) = Overlap(running, cand) =>
                       chosen.count >= cand.count

RECURSIVE MergedLength(_)
\* len(segment 1) + the sum over the later segments of (len(segment) - 2)
MergedLength(segments) ==
  IF Len(segments) = 1 THEN Len(segments[1].phrase)
  ELSE MergedLength(SubSeq(segments, 1, Len(segments) - 1))
         + (Len(segments[Len(segments)].phrase) - OverlapWidth)

\* C25: for every best-chains result, 2-gram segments included, WordCount is
\* the number of words of the merged text, len(segment 1) plus the sum over
\* the later segments of (len(segment) - 2), FileCount is the size of the
\* final running shared-file set, and Score = WordCount * FileCount.
BestChainNumbers ==
  (report # NoReport /\ report.type = "best_chains") =>
     \A c \in Range(report.chains) :
        /\ c.wordCount = MergedLength(c.segments)
        /\ c.wordCount = Cardinality({k \in DOMAIN c.fullText : c.fullText[k] # EmptyPiece})
        /\ c.fileCount = Cardinality(RunningFiles(c.segments, Len(c.segments)))
        /\ c.score = c.wordCount * c.fileCount

\* the scoring key and the secondary key of a chain of a report
ScoringKey(type, c) == IF type = "best_chains" THEN c.score ELSE c.fileCount
SecondaryKey(type, c) ==
  CASE type = "recurring_text" -> c.totalLength
    [] type = "linked_ngrams" -> c.chainLength
    [] OTHER -> c.wordCount

SequenceWindows(n, i) ==
  IF \E j \in ReadableFiles : corpus[j].name = filesTxt.lines[i]
  THEN Windows(WordIds(corpus[CHOOSE j \in ReadableFiles :
                                corpus[j].name = filesTxt.lines[i]].text, WordToIndex), n)
  ELSE <<>>

\* C27: for every order n in [2, maxN] the n-gram index is sound and complete
\* for the corpus tokenized through the dictionary: the n-gram IDs are dense
\* in [0, G) in first-seen order, line i of the n-gram table and line i of
\* the n-gram->files table describe the same n-gram, and file f is in an
\* n-gram's set if and only if the tuple occurs as n consecutive entries of
\* f's word-ID sequence.
NgramIndexSoundAndComplete ==
  (lastRun.stage = "ngrams" /\ ~lastRun.err) =>
     \A n \in 2..lastRun.maxN :
        LET keys == uniqNgram[n].lines
            index == gramindex[n].lines
        IN /\ keys = Distinct(CorpusWindows(n), <<>>)
           /\ Len(index) = Len(keys)
           /\ \A g \in DOMAIN index :
                 /\ LineHead(index[g]) = g - 1
                 /\ LineIds(index[g]) =
                      {i - 1 : i \in {j \in DOMAIN filesTxt.lines :
                                        keys[g] \in Range(SequenceWindows(n, j))}}

\* the loaded n-grams that can continue a chain after the segment: they
\* start with its last two words and are not the segment's n-gram itself
Continuations(seg) ==
  {e \in Range(StartList(ReportEntries, EndKey(EntryOf(seg)))) :
     Phrase(e.words) # seg.phrase}

\* C28: the best-chains search ends for every starting n-gram, also when
\* n-grams link in a cycle: each chain has at most 11 segments (the head and
\* at most 10 hops), every hop goes to a continuation of the segment before
\* it, and a chain of fewer than 11 segments ends where no continuation
\* other than the current n-gram shares the boundary.
GreedySearchStopsInTime ==
  (report # NoReport /\ report.type = "best_chains") =>
     \A c \in Range(report.chains) :
        /\ Len(c.segments) <= 11
        /\ \A k \in 1..(Len(c.segments) - 1) :
              EntryOf(c.segments[k + 1]) \in Continuations(c.segments[k])
        /\ Len(c.segments) < 11 => Continuations(c.segments[Len(c.segments)]) = {}

\* a report over n-grams that link in a cycle, with a chain cut at the hop
\* limit whose last segment could be continued and whose segments repeat
CycleCutAtHopLimit ==
  /\ report # NoReport /\ report.type = "best_chains"
  /\ \E c \in Range(report.chains) :
        /\ Len(c.segments) = 11
        /\ Continuations(c.segments[11]) # {}
        /\ \E i, j \in DOMAIN c.segments : i < j /\ c.segments[i] = c.segments[j]

\* ------------------------------------------------- the report job store
\* The server with its job store: reportJobs holds the jobs in the order
\* they were registered (a job's ID is its position), jobQueue the IDs on the
\* channel; enqueued and started record the order the jobs went onto the
\* channel and the order processReport took them up; worker and handler are
\* the positions of the report worker and of the HTTP handlers; access is the
\* last read or write of a job's mutable fields and whether its goroutine
\* held reportJobsMu.
JobTypes == {"best_chains", "bogus"}

\* the parameters the jobs are posted with
JobRequest == [MinN |-> 3, MinFiles |-> 0, SkipNumeric |-> FALSE, TopN |-> 0]

\* job := &ReportJob{..., Status: "queued", CreatedAt: now}
NewJob(type) ==
  [Type |-> type, Status |-> "queued", Progress |-> 0, Total |-> 0,
   Message |-> "", FilePath |-> "", Error |-> ""]

\* two handlers of POST /api/report and one of the GET routes
Posters == {"post1", "post2"}
HandlerIds == Posters \cup {"get"}

NoAccess == [by |-> "none", job |-> 0, write |-> FALSE, locked |-> TRUE]

\* the progress values the best-chains report passes to updateProgress when
\* it loads one order
ProgressSteps == <<0, 40, 50, 100>>

\* StartServer with the report worker started and no job posted yet
ServerStarted(maxN) ==
  [up |-> TRUE, MaxN |-> maxN,
   reportJobs |-> <<>>, jobQueue |-> <<>>, enqueued |-> <<>>, started |-> <<>>,
   worker |-> [pc |-> "range", job |-> 0, step |-> 0],
   handler |-> [h \in HandlerIds |-> [pc |-> "idle", job |-> 0]],
   access |-> NoAccess]

storeFrame == <<run, corpus, cacheVars, lastRun, report>>

\* queueReport up to the registration: the job is built and, under the
\* lock, put into reportJobs
queueReport(h, type) ==
  /\ h \in Posters /\ server.handler[h].pc = "idle"
  /\ Len(server.reportJobs) < MaxJobs
  /\ server' = [server EXCEPT !.reportJobs = Append(@, NewJob(type)),
                              !.handler[h] = [pc |-> "select",
                                              job |-> Len(server.reportJobs) + 1]]
  /\ UNCHANGED storeFrame

\* the select of queueReport: the job goes onto jobQueue, or the queue is
\* full and Status and Error are written, the lock not held
queueReportSelect(h) ==
  /\ h \in Posters /\ server.handler[h].pc = "select"
  /\ LET j == server.handler[h].job
     IN IF Len(server.jobQueue) < QueueCap
        THEN server' = [server EXCEPT !.jobQueue = Append(@, j),
                                      !.enqueued = Append(@, j),
                                      !.handler[h].pc = "respond"]
        ELSE server' = [server EXCEPT !.reportJobs[j].Status = "error",
                                      !.reportJobs[j].Error = "queue full",
                                      !.access = [by |-> h, job |-> j, write |-> TRUE,
                                                  locked |-> FALSE],
                                      !.handler[h].pc = "respond"]
  /\ UNCHANGED storeFrame

\* return c.JSON(job) of queueReport: the job's fields are read, the lock
\* not held
queueReportRespond(h) ==
  /\ h \in Posters /\ server.handler[h].pc = "respond"
  /\ server' = [server EXCEPT !.access = [by |-> h, job |-> server.handler[h].job,
                                          write |-> FALSE, locked |-> FALSE],
                              !.handler[h] = [pc |-> "idle", job |-> 0]]
  /\ UNCHANGED storeFrame

\* getReportStatus, listReports and viewReport up to RUnlock: the job
\* pointers are taken from reportJobs under the read lock
getReportStatus(j) ==
  /\ server.handler["get"].pc = "idle" /\ j \in DOMAIN server.reportJobs
  /\ server' = [server EXCEPT !.handler["get"] = [pc |-> "status", job |-> j]]
  /\ UNCHANGED storeFrame

listReports(j) ==
  /\ server.handler["get"].pc = "idle" /\ j \in DOMAIN server.reportJobs
  /\ server' = [server EXCEPT !.handler["get"] = [pc |-> "list", job |-> j]]
  /\ UNCHANGED storeFrame

viewReport(j) ==
  /\ server.handler["get"].pc = "idle" /\ j \in DOMAIN server.reportJobs
  /\ server' = [server EXCEPT !.handler["get"] = [pc |-> "view", job |-> j]]
  /\ UNCHANGED storeFrame

\* the rest of the three GET handlers: c.JSON(job), c.JSON(jobs) and the
\* test of job.FilePath read the job's fields after RUnlock
getRespond ==
  /\ server.handler["get"].pc \in {"status", "list", "view"}
  /\ server' = [server EXCEPT !.access = [by |-> "get", job |-> server.handler["get"].job,
                                          write |-> FALSE, locked |-> FALSE],
                              !.handler["get"] = [pc |-> "idle", job |-> 0]]
  /\ UNCHANGED storeFrame

\* a worker that takes the newest job of the queue
reportWorkerTakesLast ==
  /\ server.worker.pc = "range" /\ server.jobQueue # <<>>
  /\ server' = [server EXCEPT
        !.jobQueue = SubSeq(@, 1, Len(@) - 1),
        !.worker = [pc |-> "process", job |-> server.jobQueue[Len(server.jobQueue)],
                    step |-> 0]]
  /\ UNCHANGED storeFrame

\* for job := range jobQueue
reportWorker ==
  /\ server.worker.pc = "range" /\ server.jobQueue # <<>>
  /\ server' = [server EXCEPT !.jobQueue = Tail(@),
                              !.worker = [pc |-> "process", job |-> Head(server.jobQueue),
                                          step |-> 0]]
  /\ UNCHANGED storeFrame

\* processReport up to the switch: under the lock the job becomes running
processReport ==
  /\ server.worker.pc = "process"
  /\ LET j == server.worker.job
     IN server' = [server EXCEPT !.reportJobs[j].Status = "running",
                                 !.reportJobs[j].Message = "Starting...",
                                 !.started = Append(@, j),
                                 !.access = [by |-> "worker", job |-> j, write |-> TRUE,
                                             locked |-> TRUE],
                                 !.worker.pc = "generate"]
  /\ UNCHANGED storeFrame

\* updateProgress, called by the report generator: under the lock
updateProgress ==
  /\ server.worker.pc = "generate"
  /\ server.reportJobs[server.worker.job].Type = "best_chains"
  /\ server.worker.step < Len(ProgressSteps)
  /\ LET j == server.worker.job
     IN server' = [server EXCEPT !.reportJobs[j].Progress = ProgressSteps[server.worker.step + 1],
                                 !.reportJobs[j].Total = 100,
                                 !.reportJobs[j].Message = "Loading...",
                                 !.reportJobs[j].Status = "running",
                                 !.access = [by |-> "worker", job |-> j, write |-> TRUE,
                                             locked |-> TRUE],
                                 !.worker.step = @ + 1]
  /\ UNCHANGED storeFrame

\* the end of processReport: the generator has returned, with the report
\* written or with an error (an unknown type, a failed os.WriteFile), and
\* under the lock the job becomes done or error
processReportFinish ==
  /\ server.worker.pc = "generate"
  /\ LET j == server.worker.job
         type == server.reportJobs[j].Type
         done == [server EXCEPT !.reportJobs[j].Status = "done",
                                !.reportJobs[j].FilePath = "report.json",
                                !.reportJobs[j].Progress = server.reportJobs[j].Total,
                                !.access = [by |-> "worker", job |-> j, write |-> TRUE,
                                            locked |-> TRUE],
                                !.worker = [pc |-> "range", job |-> 0, step |-> 0]]
         failed == [server EXCEPT !.reportJobs[j].Status = "error",
                                  !.reportJobs[j].Error = "failed",
                                  !.access = [by |-> "worker", job |-> j, write |-> TRUE,
                                              locked |-> TRUE],
                                  !.worker = [pc |-> "range", job |-> 0, step |-> 0]]
     IN \/ /\ type # "best_chains"
           /\ server' = failed /\ UNCHANGED report
        \/ /\ type = "best_chains" /\ server.worker.step = Len(ProgressSteps)
           /\ \/ server' = failed /\ UNCHANGED report
              \/ /\ server' = done
                 /\ LET job == Job(type, JobRequest)
                    IN \E loadOrder \in LoadOrders(job) :
                         \E keyOrder \in MapOrders(EndKeys(BestEntries(job, loadOrder))) :
                            report' = [type |-> type, job |-> job,
                                       chains |-> BestChains(job, loadOrder, keyOrder)]
  /\ UNCHANGED <<run, corpus, cacheVars, lastRun>>

\* the server started on a cache directory that holds no file yet
InitJobs ==
  /\ corpus = <<>>
  /\ settings = NoFile /\ uniq = NoFile /\ filesTxt = NoFile /\ fileuniqindex = NoFile
  /\ uniqNgram = [n \in Orders |-> NoFile]
  /\ gramindex = [n \in Orders |-> NoFile]
  /\ gramfreq = [n \in Orders |-> NoFile]
  /\ gramfiles = [n \in Orders |-> NoFile]
  /\ lastRun = [stage |-> "none", maxN |-> 0, err |-> FALSE]
  /\ server = ServerStarted(MaxOrder - 1)
  /\ report = NoReport
  /\ run = NoRun

NextJobs ==
  \/ \E h \in Posters : \E type \in JobTypes : queueReport(h, type)
  \/ \E h \in Posters : queueReportSelect(h)
  \/ \E h \in Posters : queueReportRespond(h)
  \/ \E j \in 1..MaxJobs : getReportStatus(j)
  \/ \E j \in 1..MaxJobs : listReports(j)
  \/ \E j \in 1..MaxJobs : viewReport(j)
  \/ getRespond
  \/ reportWorker
  \/ processReport
  \/ updateProgress
  \/ processReportFinish

SpecJobs == InitJobs /\ [][NextJobs]_vars

\* the status changes a job may make in one step
StatusSteps ==
  {<<"queued", "running">>, <<"running", "done">>, <<"running", "error">>,
   <<"queued", "error">>}

\* C29: after any interleaving of report submissions and report-worker steps
\* each job's status only moves queued -> running -> (done | error), or
\* queued -> error when the queue is full; a done or error status never
\* changes again; at most one job is running at a time and the jobs run in
\* the order they were put on the queue; a job with status done has its
\* result file path set and its progress equal to its total.
JobStatusLifecycle ==
  /\ [][\A j \in DOMAIN server.reportJobs :
          LET old == server.reportJobs[j].Status
              new == server'.reportJobs[j].Status
          IN old # new =>
               /\ <<old, new>> \in StatusSteps
               /\ <<old, new>> = <<"queued", "error">> =>
                     (Len(server.jobQueue) = QueueCap /\ j \notin Range(server.enqueued))]_vars
  /\ [](/\ Cardinality({j \in DOMAIN server.reportJobs :
                          server.reportJobs[j].Status = "running"}) <= 1
        /\ server.started = SubSeq(server.enqueued, 1, Len(server.started))
        /\ \A j \in DOMAIN server.reportJobs :
              server.reportJobs[j].Status = "done" =>
                 /\ server.reportJobs[j].FilePath # ""
                 /\ server.reportJobs[j].Progress = server.reportJobs[j].Total)

\* one job is done, one failed in the worker, and one was turned away by the
\* full queue
JobsDoneFailedAndRejected ==
  /\ Len(server.reportJobs) = MaxJobs
  /\ \E j \in DOMAIN server.reportJobs :
        server.reportJobs[j].Status = "done" /\ server.reportJobs[j].Total = 100
  /\ \E j \in DOMAIN server.reportJobs :
        server.reportJobs[j].Status = "error" /\ j \in Range(server.started)
  /\ \E j \in DOMAIN server.reportJobs :
        server.reportJobs[j].Status = "error" /\ server.reportJobs[j].Error = "queue full"

\* the handlers that are about to read job j's fields after their unlock
ReadersOf(j) ==
  {h \in HandlerIds : /\ server.handler[h].job = j
                      /\ server.handler[h].pc \in {"respond", "status", "list", "view"}}

\* C30: every read and every write of a job's mutable fields (status,
\* progress, total, message, file path, error) happens while its goroutine
\* holds reportJobsMu, so that no HTTP handler (submit, status poll, list,
\* view) reads or writes a job at the same time as the worker's update of it.
JobFieldsAccessedUnderLock ==
  /\ server.access.locked
  /\ \A j \in DOMAIN server.reportJobs :
        (server.worker.job = j /\ server.worker.pc \in {"process", "generate"})
           => ReadersOf(j) = {}

\* ------------------------------------------------------------- RunProcess
\* processFile: the file is written (or is there already), has an unsupported
\* extension, fails with an error (relative path, extraction, mkdir, write),
\* or panics and the deferred recover catches it
Outcomes == {"written", "ignored", "error", "panic"}

\* the -ram values: none (ParseMemoryLimit("") = 0) and a ceiling
RamLimits == {0, 2}

\* the values runtime.ReadMemStats finds in m.Alloc
Allocs == {1, 2, 3}

\* RunProcess is called: the log sinks are started, the directory is walked,
\* the channels are made and the workers, the producer and the progress
\* monitor are started
RunStarted(totalFiles, workers, ramLimit) ==
  [pc |-> "wgWait",
   totalFiles |-> totalFiles, workers |-> workers, ramLimit |-> ramLimit,
   jobs |-> <<>>, jobsClosed |-> FALSE,
   progress |-> 0, progressClosed |-> FALSE,
   doneProcessing |-> FALSE,
   worker |-> [i \in 1..workers |-> [pc |-> "range", job |-> 0]],
   producer |-> [pc |-> "loop", index |-> 0, alloc |-> 0, slept |-> FALSE],
   monitor |-> [pc |-> "range", finished |-> 0],
   outcome |-> [f \in 1..totalFiles |-> "none"],
   signalled |-> {},
   logIgnored |-> {}, logError |-> {}, logsClosed |-> FALSE,
   ignoredChan |-> <<>>, errorChan |-> <<>>,
   ignoredFile |-> {}, errorsFile |-> {}, filesClosed |-> FALSE,
   sink |-> [ignored |-> "range", errors |-> "range"]]

\* cap(jobs) and cap(progressChan)
ChanCap == 2 * run.workers

Running == run.pc # "none"

\* WorkerReceive leaving the job it took in the queue
WorkerReceiveKeepsJob(i) ==
  /\ Running /\ i \in DOMAIN run.worker /\ run.worker[i].pc = "range"
  /\ \/ /\ run.jobs # <<>> /\ run.outcome[Head(run.jobs)] = "none"
        /\ run' = [run EXCEPT !.worker[i] = [pc |-> "process", job |-> Head(run.jobs)]]
     \/ /\ run.jobs # <<>> /\ run.outcome[Head(run.jobs)] # "none"
        /\ run' = [run EXCEPT !.jobs = Tail(run.jobs)]
     \/ /\ run.jobs = <<>> /\ run.jobsClosed
        /\ run' = [run EXCEPT !.worker[i] = [pc |-> "done", job |-> 0]]
  /\ UNCHANGED pipelineVars

\* a worker takes the next job, or leaves its loop when jobs is closed and empty
WorkerReceive(i) ==
  /\ Running /\ i \in DOMAIN run.worker /\ run.worker[i].pc = "range"
  /\ \/ /\ run.jobs # <<>>
        /\ run' = [run EXCEPT !.jobs = Tail(run.jobs),
                              !.worker[i] = [pc |-> "process", job |-> Head(run.jobs)]]
     \/ /\ run.jobs = <<>> /\ run.jobsClosed
        /\ run' = [run EXCEPT !.worker[i] = [pc |-> "done", job |-> 0]]
  /\ UNCHANGED pipelineVars

\* processFile where the panic is not recovered: the program dies
processFileUnrecovered(i) ==
  /\ Running /\ i \in DOMAIN run.worker /\ run.worker[i].pc = "process"
  /\ \E outcome \in Outcomes :
       LET f == run.worker[i].job
       IN run' = [run EXCEPT !.worker[i].pc = IF outcome = "panic" THEN "dead" ELSE "report",
                             !.pc = IF outcome = "panic" THEN "crashed" ELSE @,
                             !.outcome[f] = outcome,
                             !.logIgnored = IF outcome = "ignored" THEN @ \cup {f} ELSE @,
                             !.ignoredChan = IF outcome = "ignored" THEN Append(@, f) ELSE @,
                             !.logError = IF outcome = "error" THEN @ \cup {f} ELSE @,
                             !.errorChan = IF outcome = "error" THEN Append(@, f) ELSE @]
  /\ UNCHANGED pipelineVars

\* processFile of the worker's job: every path returns to the worker, the
\* failing ones after a message on logError, the unsupported extension after
\* one on logIgnored (the log channels hold 1000 messages and their sinks
\* drain them until RunProcess closes them)
processFile(i) ==
  /\ Running /\ i \in DOMAIN run.worker /\ run.worker[i].pc = "process"
  /\ \E outcome \in Outcomes :
       LET f == run.worker[i].job
       IN run' = [run EXCEPT !.worker[i].pc = "report",
                             !.outcome[f] = outcome,
                             !.logIgnored = IF outcome = "ignored" THEN @ \cup {f} ELSE @,
                             !.ignoredChan = IF outcome = "ignored" THEN Append(@, f) ELSE @,
                             !.logError = IF outcome \in {"error", "panic"}
                                          THEN @ \cup {f} ELSE @,
                             !.errorChan = IF outcome \in {"error", "panic"}
                                           THEN Append(@, f) ELSE @]
  /\ UNCHANGED pipelineVars

\* progressChan <- true
WorkerReport(i) ==
  /\ Running /\ i \in DOMAIN run.worker /\ run.worker[i].pc = "report"
  /\ run.progress < ChanCap
  /\ run' = [run EXCEPT !.progress = @ + 1,
                        !.signalled = @ \cup {run.worker[i].job},
                        !.worker[i] = [pc |-> "range", job |-> 0]]
  /\ UNCHANGED pipelineVars

\* the producer leaves the memory loop: no ceiling is set and no sample is
\* taken, or the sample is below the ceiling
ProducerBelowLimit ==
  /\ Running /\ run.producer.pc = "loop" /\ run.producer.index < run.totalFiles
  /\ \/ /\ ~(run.ramLimit > 0)
        /\ run' = [run EXCEPT !.producer.pc = "send"]
     \/ /\ run.ramLimit > 0
        /\ \E alloc \in Allocs :
             /\ alloc < run.ramLimit
             /\ run' = [run EXCEPT !.producer.pc = "send", !.producer.alloc = alloc]
  /\ UNCHANGED pipelineVars

\* ProducerAboveLimit leaving the memory loop on a sample at or above the
\* ceiling
ProducerAboveLimitBreaks ==
  /\ Running /\ run.producer.pc = "loop" /\ run.producer.index < run.totalFiles
  /\ run.ramLimit > 0
  /\ \E alloc \in Allocs :
       /\ ~(alloc < run.ramLimit)
       /\ run' = [run EXCEPT !.producer.pc = "send", !.producer.alloc = alloc]
  /\ UNCHANGED pipelineVars

\* the producer finds the allocation at or above the ceiling: it collects
\* garbage, sleeps and reads the allocation again
ProducerAboveLimit ==
  /\ Running /\ run.producer.pc = "loop" /\ run.producer.index < run.totalFiles
  /\ run.ramLimit > 0
  /\ \E alloc \in Allocs :
       /\ ~(alloc < run.ramLimit)
       /\ run' = [run EXCEPT !.producer.alloc = alloc, !.producer.slept = TRUE]
  /\ UNCHANGED pipelineVars

\* jobs <- Job{Path: path, Index: index + 1}
ProducerSend ==
  /\ Running /\ run.producer.pc = "send"
  /\ Len(run.jobs) < ChanCap
  /\ run' = [run EXCEPT !.jobs = Append(@, run.producer.index + 1),
                        !.producer.pc = "loop",
                        !.producer.index = run.producer.index + 1]
  /\ UNCHANGED pipelineVars

\* close(jobs)
ProducerClose ==
  /\ Running /\ run.producer.pc = "loop" /\ run.producer.index = run.totalFiles
  /\ run' = [run EXCEPT !.jobsClosed = TRUE, !.producer.pc = "done"]
  /\ UNCHANGED pipelineVars

\* the monitor counts one finished file; at the total it closes
\* doneProcessing and returns
MonitorCount ==
  /\ Running /\ run.monitor.pc = "range" /\ run.progress > 0
  /\ run' = [run EXCEPT !.progress = @ - 1,
                        !.monitor = [pc |-> IF run.monitor.finished + 1 = run.totalFiles
                                            THEN "returned" ELSE "range",
                                     finished |-> run.monitor.finished + 1],
                        !.doneProcessing = @ \/ (run.monitor.finished + 1 = run.totalFiles)]
  /\ UNCHANGED pipelineVars

\* the range over progressChan ends: the channel is closed and empty
MonitorRangeEnds ==
  /\ Running /\ run.monitor.pc = "range" /\ run.progress = 0 /\ run.progressClosed
  /\ run' = [run EXCEPT !.monitor.pc = "ended"]
  /\ UNCHANGED pipelineVars

\* wg.Wait() returns and progressChan is closed
WaitForWorkers ==
  /\ run.pc = "wgWait"
  /\ \A i \in DOMAIN run.worker : run.worker[i].pc = "done"
  /\ run' = [run EXCEPT !.pc = "awaitDone", !.progressClosed = TRUE]
  /\ UNCHANGED pipelineVars

\* <-doneProcessing; the log channels are closed and RunProcess returns: the
\* deferred Close of errors.txt and ignored.txt runs
RunProcessReturn ==
  /\ run.pc = "awaitDone" /\ run.doneProcessing
  /\ run' = [run EXCEPT !.pc = "returned", !.logsClosed = TRUE, !.filesClosed = TRUE]
  /\ UNCHANGED pipelineVars

\* the sink of logIgnored takes a message and writes it to ignored.txt; on
\* the closed file WriteString fails and the sink goes on
SinkIgnored ==
  /\ Running /\ run.sink.ignored = "range" /\ run.ignoredChan # <<>>
  /\ run' = [run EXCEPT !.ignoredChan = Tail(@),
                        !.ignoredFile = IF run.filesClosed THEN @
                                        ELSE @ \cup {Head(run.ignoredChan)}]
  /\ UNCHANGED pipelineVars

\* the sink of logError takes a message and writes it to errors.txt
SinkError ==
  /\ Running /\ run.sink.errors = "range" /\ run.errorChan # <<>>
  /\ run' = [run EXCEPT !.errorChan = Tail(@),
                        !.errorsFile = IF run.filesClosed THEN @
                                       ELSE @ \cup {Head(run.errorChan)}]
  /\ UNCHANGED pipelineVars

\* the range of a sink ends: its channel is closed and empty
SinkEnds ==
  /\ Running /\ run.logsClosed
  /\ \/ /\ run.sink.ignored = "range" /\ run.ignoredChan = <<>>
        /\ run' = [run EXCEPT !.sink.ignored = "ended"]
     \/ /\ run.sink.errors = "range" /\ run.errorChan = <<>>
        /\ run' = [run EXCEPT !.sink.errors = "ended"]
  /\ UNCHANGED pipelineVars

Worker(i) == WorkerReceive(i) \/ processFile(i) \/ WorkerReport(i)
Producer == ProducerBelowLimit \/ ProducerSend \/ ProducerClose
Monitor == MonitorCount \/ MonitorRangeEnds
RunProcess == WaitForWorkers \/ RunProcessReturn
Sinks == SinkIgnored \/ SinkError \/ SinkEnds

InitRun ==
  /\ \E totalFiles \in 0..MaxRunFiles : \E workers \in 0..MaxWorkers : \E ramLimit \in RamLimits :
        run = RunStarted(totalFiles, workers, ramLimit)
  /\ corpus = <<>>
  /\ InitCache

NextRun ==
  \/ \E i \in 1..MaxWorkers : WorkerReceive(i)
  \/ \E i \in 1..MaxWorkers : processFile(i)
  \/ \E i \in 1..MaxWorkers : WorkerReport(i)
  \/ ProducerBelowLimit
  \/ ProducerAboveLimit
  \/ ProducerSend
  \/ ProducerClose
  \/ MonitorCount
  \/ MonitorRangeEnds
  \/ WaitForWorkers
  \/ RunProcessReturn
  \/ SinkIgnored
  \/ SinkError
  \/ SinkEnds

\* the Go scheduler runs every goroutine that can take a step, and the
\* allocation does not stay above the ceiling forever
FairRun ==
  /\ \A i \in 1..MaxWorkers : WF_vars(Worker(i))
  /\ WF_vars(Producer)
  /\ WF_vars(Monitor)
  /\ WF_vars(RunProcess)
  /\ WF_vars(Sinks)

SpecRun == InitRun /\ [][NextRun]_vars /\ FairRun

\* C10: RunProcess eventually returns, for every number of input files, zero
\* included, and every worker count.
RunProcessEventuallyReturns == <>(run.pc = "returned")

\* the files processFile has returned for
Processed == {f \in DOMAIN run.outcome : run.outcome[f] # "none"}

\* the files whose processing failed: an error return or a recovered panic
Failed == {f \in DOMAIN run.outcome : run.outcome[f] \in {"error", "panic"}}

\* C11: a failure while processing one file (an error return or a panic
\* recovered in processFile) never aborts the batch: a message for the file
\* is sent to the error log, the worker still sends the progress signal for
\* the file, and every other file is still processed.
FailureNeverAbortsBatch ==
  /\ [](Failed \subseteq run.logError)
  /\ \A f \in 1..MaxRunFiles :
        (f \in Failed) ~> (f \in run.signalled /\ Processed = 1..run.totalFiles)

\* a run of several files has returned; one file panicked, another was written
FailedFileInFinishedRun ==
  /\ run.pc = "returned" /\ run.totalFiles >= 2
  /\ \E f \in Failed : run.outcome[f] = "panic" /\ f \in run.logError /\ f \in run.signalled
  /\ \E g \in Processed : run.outcome[g] = "written"

\* C12: with a memory ceiling the producer enqueues a job only right after a
\* sample below the ceiling; throttling only delays: the jobs are enqueued in
\* order, none is dropped before jobs is closed, and with workers to take
\* them every file is enqueued in the end; with no ceiling the producer
\* never waits on memory.
ThrottleOnlyDelays ==
  /\ [][/\ Len(run'.jobs) > Len(run.jobs) =>
             /\ run'.jobs = Append(run.jobs, run.producer.index + 1)
             /\ run.ramLimit > 0 =>
                  (run.producer.alloc \in Allocs /\ run.producer.alloc < run.ramLimit)
        /\ run'.producer.slept => run.ramLimit > 0
        /\ run'.jobsClosed => run'.producer.index = run.totalFiles]_vars
  /\ (run.workers >= 1) => <>(run.jobsClosed /\ run.producer.index = run.totalFiles)

\* the producer has slept on a sample at the ceiling and has since enqueued
\* every file of the run
ThrottledRunEnqueuedAll ==
  /\ run.ramLimit > 0 /\ run.producer.slept
  /\ run.totalFiles >= 2 /\ run.producer.index = run.totalFiles /\ run.jobsClosed

\* C21: when RunProcess returns, every message a worker sent to the error log
\* or the ignored-files log has been written to its log file by the sink of
\* that log, and no worker sends on a log channel after it was closed.
LogsWrittenAtReturn ==
  /\ [](run.pc = "returned" =>
          /\ run.logError \subseteq run.errorsFile
          /\ run.logIgnored \subseteq run.ignoredFile)
  /\ [][run.logsClosed => (run'.logError = run.logError /\ run'.logIgnored = run.logIgnored)]_vars

\* how often file f is in the job queue, in a worker's hands before
\* processFile has returned, or processed
Holdings(f) ==
  Cardinality({k \in DOMAIN run.jobs : run.jobs[k] = f})
    + Cardinality({i \in DOMAIN run.worker :
                     run.worker[i].pc = "process" /\ run.worker[i].job = f})
    + (IF run.outcome[f] # "none" THEN 1 ELSE 0)

\* C22: in a run with W >= 1 workers every enumerated file is dequeued and
\* processed by exactly one worker exactly once, in any interleaving; the
\* job queue never holds more than 2*W jobs, and the monitor's finished
\* count never exceeds and finally equals the number of enumerated files.
EveryFileProcessedOnce ==
  /\ [](run.workers >= 1 =>
          /\ \A f \in 1..run.totalFiles :
                Holdings(f) = (IF f <= run.producer.index THEN 1 ELSE 0)
          /\ Len(run.jobs) <= 2 * run.workers
          /\ run.monitor.finished <= run.totalFiles)
  /\ [][run.workers >= 1 =>
          \A f \in 1..run.totalFiles :
             run.outcome[f] # "none" => run'.outcome[f] = run.outcome[f]]_vars
  /\ (run.workers >= 1) =>
        <>(Processed = 1..run.totalFiles /\ run.monitor.finished = run.totalFiles)

\* two workers have shared a run of MaxRunFiles files and the monitor has
\* counted them all
SharedRunCounted ==
  /\ run.pc = "returned" /\ run.workers = 2 /\ run.totalFiles = MaxRunFiles
  /\ Processed = 1..MaxRunFiles /\ run.monitor.finished = MaxRunFiles


=============================================================================
